---- MODULE Spec2Model ----
(***************************************************************************)
(* Verification model of batyr, a screenplay typesetter.                   *)
(*                                                                         *)
(*   - tokens and the break-point analysis (document/reader.rs)            *)
(*   - break selection for cues and paragraphs (document.rs)               *)
(*   - the page-flow formatter (document/formatter.rs)                     *)
(*                                                                         *)
(* The text module (text.rs, text/tokens.rs) is not part of the source     *)
(* tree at hand; token lengths, next_word_fits and linebreak_fill are      *)
(* modelled from the written specification (sections 3, 4.3 and 4.4).      *)
(***************************************************************************)
EXTENDS Integers, Sequences, FiniteSets, TLC

VARIABLES
    elems,      \* the element stream root.into_iter() yields to Formatter::run
    pos,        \* how many elements of the stream run has dispatched
    f,          \* the Formatter struct (self)
    popped,     \* what the last dispatched D/Dir took from break_selection
    op,         \* harness: the operation applied to arg ("init" before)
    arg,        \* harness: the input of a pure operation
    res         \* harness: its result

vars == <<elems, pos, f, popped, op, arg, res>>

----------------------------------------------------------------------------
(* Generic helpers *)

Max(a, b) == IF a >= b THEN a ELSE b
Min(a, b) == IF a <= b THEN a ELSE b

Last(s) == s[Len(s)]

\* s[a..b] with 1-based inclusive bounds, empty when a > b
Slice(s, a, b) == IF a > b THEN <<>> ELSE SubSeq(s, a, b)

Repeat(x, n) == [k \in 1..n |-> x]

RECURSIVE Concat(_)
Concat(ss) == IF ss = <<>> THEN <<>> ELSE Head(ss) \o Concat(Tail(ss))

----------------------------------------------------------------------------
(* Page grid constants, document.rs *)

CENTER      == 43
TRANS_BEGIN == 60
TRANS_END   == 75
CUE_BEGIN   == 42
D_BEGIN     == 26
D_END       == 59
DIR_BEGIN   == 34
DIR_END     == 52
P_BEGIN     == 16
P_END       == 72
TOP_LINE    == 60
BOTTOM_LINE == 6

----------------------------------------------------------------------------
(* Tokens *)

NoFlags == {}

\* A token: variant, literal text (a sequence of characters), display flags
\* and format flags.
Tok(type, text, dpy, frm) ==
    [type |-> type, text |-> text, dpy |-> dpy, frm |-> frm]

Chars(c, n) == [i \in 1..n |-> c]

Word(n)      == Tok("Word", Chars("a", n), {}, NoFlags)
Space(n)     == Tok("Space", Chars(" ", n), {}, {"DLB", "DOB"})
FullStop     == Tok("Punct", <<".">>, {}, {"FS", "EOS"})
Hyphen       == Tok("Punct", <<"-">>, {}, {"DLB"})

\* resume_text_element: the token a <br/> child contributes
LineBreakToken == Tok("LineBreak", <<>>, {}, {"MLB"})

\* Token::from(usize): the Space token of the given width that D/P
\* finalization prepends for indent
IndentSpace(n) == Tok("Space", Chars(" ", n), {}, {"DLB", "DOB"})

\* TokenType::length
length(token) == Len(token.text)

----------------------------------------------------------------------------
(* Break descriptors, document.rs *)

\* struct BreakPoint
BreakPoint(token_index, discard_flag, line_no) ==
    [token_index |-> token_index, discard_flag |-> discard_flag,
     line_no |-> line_no]

\* enum BreakType; h is the payload of Forbidden/Atomic/Disposable, bps the
\* payload of List, and of Point as a one-element sequence
BT(t, h, bps) == [t |-> t, h |-> h, bps |-> bps]

BNone         == BT("None", 0, <<>>)
Mandatory     == BT("Mandatory", 0, <<>>)
Forbidden(h)  == BT("Forbidden", h, <<>>)
Atomic(h)     == BT("Atomic", h, <<>>)
Disposable(h) == BT("Disposable", h, <<>>)
Point(bp)     == BT("Point", 0, <<bp>>)
List(bps)     == BT("List", 0, bps)

----------------------------------------------------------------------------
(* Line wrapping *)

\* The word run that starts at 1-based position j: the lengths of the
\* consecutive tokens up to the next Space or LineBreak.
RECURSIVE word_run(_, _)
word_run(tokens, j) ==
    IF j > Len(tokens) \/ tokens[j].type \in {"Space", "LineBreak"}
    THEN 0
    ELSE length(tokens[j]) + word_run(tokens, j + 1)

\* Leading Space and Close tokens are passed over; leading openers count.
RECURSIVE next_run(_, _)
next_run(tokens, j) ==
    IF j > Len(tokens) THEN 0
    ELSE IF tokens[j].type \in {"Space", "Close"} THEN next_run(tokens, j + 1)
    ELSE IF tokens[j].type = "Open"
         THEN length(tokens[j]) + next_run(tokens, j + 1)
    ELSE word_run(tokens, j)

\* text::next_word_fits(tokens, line_length, i, x): does the word run after
\* the token at 0-based index i fit on a line that already holds x columns?
next_word_fits(tokens, line_length, i, x) ==
    x + next_run(tokens, i + 2) <= line_length

\* One iteration of the loop of find_break_points for the token at 0-based
\* index i; st = [bps, n, x, eos] are the loop's locals.
fbp_step(tokens, line_length, i, st) ==
    LET token == tokens[i + 1]
        frm   == token.frm
        eos1  == IF st.eos /\ token.type = "Punct" THEN FALSE ELSE st.eos
    IN  IF "MLB" \in frm THEN
            [bps |-> Append(st.bps, BreakPoint(i + 1, TRUE, st.n)),
             n |-> st.n + 1, x |-> 0, eos |-> FALSE]
        ELSE IF "EOS" \in frm /\ "DLB" \notin frm THEN
            [bps |-> st.bps, n |-> st.n, x |-> st.x + length(token),
             eos |-> TRUE]
        ELSE IF "DLB" \in frm THEN
            LET brk  == eos1 \/ "EOS" \in frm
                bps1 == IF brk
                        THEN Append(st.bps,
                                 BreakPoint(i + 1, "DOB" \in frm, st.n))
                        ELSE st.bps
                eos2 == IF brk THEN FALSE ELSE eos1
            IN  IF ~next_word_fits(tokens, line_length, i, st.x)
                THEN [bps |-> bps1, n |-> st.n + 1, x |-> 0, eos |-> eos2]
                ELSE [bps |-> bps1, n |-> st.n,
                      x |-> st.x + length(token), eos |-> eos2]
        ELSE [bps |-> st.bps, n |-> st.n, x |-> st.x + length(token),
              eos |-> eos1]

\* The iterations of the loop for the tokens at 0-based indexes a .. b - 1,
\* in order, from the locals st.  The range is run in two halves and the
\* first half is evaluated (n is at least 1) before the second begins.
RECURSIVE fbp_loop(_, _, _, _, _)
fbp_loop(tokens, line_length, st, a, b) ==
    IF a >= b THEN st
    ELSE IF b = a + 1 THEN fbp_step(tokens, line_length, a, st)
    ELSE LET m   == (a + b) \div 2
             mid == fbp_loop(tokens, line_length, st, a, m)
         IN  IF mid.n >= 1 THEN fbp_loop(tokens, line_length, mid, m, b)
             ELSE mid

\* State::find_break_points
find_break_points(tokens, line_length) ==
    LET st == fbp_loop(tokens, line_length,
                       [bps |-> <<>>, n |-> 1, x |-> 0, eos |-> FALSE],
                       0, Len(tokens))
        n  == IF st.x >= line_length THEN st.n + 1 ELSE st.n
    IN  Append(st.bps, BreakPoint(Len(tokens), FALSE, n))

\* text::count_lines: the line count of the same wrap procedure
count_lines(tokens, line_length) ==
    Last(find_break_points(tokens, line_length)).line_no

\* One token of the greedy fill; st = [lines, cur, x]: the finished lines,
\* the tokens placed on the current line, its column.
fill_step(tokens, w, i, st) ==
    LET token == tokens[i + 1]
        frm   == token.frm
    IN  IF "MLB" \in frm THEN
            [lines |-> Append(st.lines, st.cur), cur |-> <<>>, x |-> 0]
        ELSE IF "DLB" \in frm /\ ~next_word_fits(tokens, w, i, st.x) THEN
            [lines |-> Append(st.lines,
                          IF "DOB" \in frm THEN st.cur
                          ELSE Append(st.cur, token)),
             cur |-> <<>>, x |-> 0]
        ELSE [lines |-> st.lines, cur |-> Append(st.cur, token),
              x |-> st.x + length(token)]

\* The fill of the tokens at 0-based indexes a .. b - 1, in order, from
\* st; run in two halves like fbp_loop (x is at least 0)
RECURSIVE fill_loop(_, _, _, _, _)
fill_loop(tokens, w, st, a, b) ==
    IF a >= b THEN st
    ELSE IF b = a + 1 THEN fill_step(tokens, w, a, st)
    ELSE LET m   == (a + b) \div 2
             mid == fill_loop(tokens, w, st, a, m)
         IN  IF mid.x >= 0 THEN fill_loop(tokens, w, mid, m, b) ELSE mid

\* text::linebreak_fill: the lines of the greedy wrap, each the sequence of
\* tokens placed on it
linebreak_fill(tokens, w) ==
    LET st == fill_loop(tokens, w, [lines |-> <<>>, cur |-> <<>>, x |-> 0],
                        0, Len(tokens))
    IN  IF st.cur = <<>> THEN st.lines ELSE Append(st.lines, st.cur)

----------------------------------------------------------------------------
(* Break selection, document.rs *)

\* The line count a break descriptor stands for in a train:
\* one arm of the match in TextElement<Cue>::count_lines
train_height(break_info) ==
    CASE break_info.t \in {"Forbidden", "Atomic", "Disposable"} -> break_info.h
      [] break_info.t = "Point" -> break_info.bps[1].line_no
      [] break_info.t = "List"  -> Last(break_info.bps).line_no
      [] OTHER -> 0

RECURSIVE train_sum(_)
train_sum(train) ==
    IF train = <<>> THEN 0
    ELSE train_height(Head(train)) + train_sum(Tail(train))

\* A count that leaves the train out
Cue_count_lines_cue_only(train) == 1

\* TextElement<Cue>::count_lines
Cue_count_lines(train) == 1 + train_sum(train)

\* The (i32, BreakType) pair select_break returns
Ret(i, b) == [i |-> i, b |-> b]

\* An inner loop that leaves no line for (MORE) after a point
RECURSIVE sb_list_no_more(_, _, _, _, _, _, _)
sb_list_no_more(bps, lines_remaining, i, line_count, j, pi, pb) ==
    IF j > Len(bps)
    THEN [done |-> FALSE, ret |-> Ret(pi, pb)]
    ELSE IF line_count + bps[j].line_no > lines_remaining
         THEN [done |-> TRUE,
               ret |-> IF pb = BNone \/ pi < 0 THEN Ret(-1, BNone)
                       ELSE Ret(pi, pb)]
         ELSE sb_list_no_more(bps, lines_remaining, i, line_count, j + 1,
                              i, Point(bps[j]))

\* The inner loop of select_break over the points of a List entry; yields
\* [done, ret] when a point does not fit, [done = FALSE, pi, pb] otherwise.
RECURSIVE sb_list(_, _, _, _, _, _, _)
sb_list(bps, lines_remaining, i, line_count, j, pi, pb) ==
    IF j > Len(bps)
    THEN [done |-> FALSE, ret |-> Ret(pi, pb)]
    ELSE IF line_count + bps[j].line_no + 1 > lines_remaining
         THEN [done |-> TRUE,
               ret |-> IF pb = BNone \/ pi < 0 THEN Ret(-1, BNone)
                       ELSE Ret(pi, pb)]
         ELSE sb_list(bps, lines_remaining, i, line_count, j + 1,
                      i, Point(bps[j]))

\* The loop of select_break over the train, from 0-based index i, with the
\* locals line_count, prev_break_list_index (pi) and prev_break_info (pb).
RECURSIVE sb_loop(_, _, _, _, _, _)
sb_loop(train, lines_remaining, i, line_count, pi, pb) ==
    LET n == Len(train) IN
    IF i >= n THEN Ret(-1, BNone)
    ELSE
    LET b    == train[i + 1]
        more == IF i = n - 1 THEN 0 ELSE 1
    IN  CASE b.t = "None" ->
               sb_loop(train, lines_remaining, i + 1, line_count, pi, pb)
          [] b.t = "Mandatory" -> Ret(i, Mandatory)
          [] b.t = "Forbidden" ->
               IF line_count + b.h + more > lines_remaining
               THEN Ret(pi, pb)
               ELSE sb_loop(train, lines_remaining, i + 1,
                            line_count + b.h, pi, pb)
          [] b.t \in {"Atomic", "Disposable"} ->
               IF line_count + b.h + more > lines_remaining
               THEN Ret(pi, pb)
               ELSE sb_loop(train, lines_remaining, i + 1,
                            line_count + b.h, i, b)
          [] b.t = "Point" ->
               IF line_count + b.bps[1].line_no + more > lines_remaining
               THEN Ret(pi, pb)
               ELSE sb_loop(train, lines_remaining, i + 1, line_count, i, b)
          [] b.t = "List" ->
               LET l == sb_list(b.bps, lines_remaining, i, line_count, 1,
                                pi, pb)
               IN  IF l.done THEN l.ret
                   ELSE sb_loop(train, lines_remaining, i + 1,
                                line_count + Last(b.bps).line_no,
                                l.ret.i, l.ret.b)

\* A selection that always answers as if the whole dialogue fitted
Cue_select_break_whole(train, lines_remaining) ==
    IF lines_remaining < 2 THEN Ret(-1, BNone)
    ELSE Ret(Len(train), BNone)

\* A selection that reports the break at the direction before it
Cue_select_break_early(train, lines_remaining) ==
    IF lines_remaining < 2 THEN Ret(-1, BNone)
    ELSE IF Cue_count_lines(train) <= lines_remaining
         THEN Ret(Len(train), BNone)
         ELSE LET r == sb_loop(train, lines_remaining, 0, 1, -1, BNone)
              IN  IF r.i >= 1 /\ train[r.i].t = "Forbidden"
                  THEN Ret(r.i - 1, r.b) ELSE r

\* TextElement<Cue>::select_break
Cue_select_break(train, lines_remaining) ==
    IF lines_remaining < 2 THEN Ret(-1, BNone)
    ELSE IF Cue_count_lines(train) <= lines_remaining
         THEN Ret(Len(train), BNone)
         ELSE sb_loop(train, lines_remaining, 0, 1, -1, BNone)

\* TextElement<P>::count_lines
P_count_lines(break_info) ==
    CASE break_info.t \in {"Forbidden", "Atomic", "Disposable"} -> break_info.h
      [] break_info.t = "Point" -> break_info.bps[1].line_no
      [] break_info.t = "List" ->
           IF break_info.bps # <<>> THEN Last(break_info.bps).line_no ELSE 0
      [] OTHER -> 0

\* A loop that stops one line early
RECURSIVE psb_list_early(_, _, _, _)
psb_list_early(bps, lines_remaining, j, prev_break_info) ==
    IF j > Len(bps) THEN Mandatory
    ELSE IF bps[j].line_no >= lines_remaining
         THEN (IF prev_break_info = BNone THEN Mandatory
               ELSE prev_break_info)
         ELSE psb_list_early(bps, lines_remaining, j + 1, Point(bps[j]))

\* The loop of P's select_break over the break points of a List
RECURSIVE psb_list(_, _, _, _)
psb_list(bps, lines_remaining, j, prev_break_info) ==
    IF j > Len(bps) THEN Mandatory
    ELSE IF bps[j].line_no > lines_remaining
         THEN (IF prev_break_info = BNone THEN Mandatory
               ELSE prev_break_info)
         ELSE psb_list(bps, lines_remaining, j + 1, Point(bps[j]))

\* TextElement<P>::select_break
P_select_break(break_info, lines_remaining) ==
    IF P_count_lines(break_info) <= lines_remaining THEN BNone
    ELSE CASE break_info.t = "Atomic" -> Mandatory
           [] break_info.t = "List" ->
                psb_list(break_info.bps, lines_remaining, 1, BNone)
           [] OTHER -> Mandatory

\* The loop of lines_to_first_break over the train
RECURSIVE ltfb_loop(_, _)
ltfb_loop(train, line_count) ==
    IF train = <<>> THEN line_count
    ELSE LET b == Head(train) IN
         CASE b.t = "None" -> ltfb_loop(Tail(train), line_count)
           [] b.t = "Mandatory" -> line_count
           [] b.t = "Forbidden" -> ltfb_loop(Tail(train), line_count + b.h)
           [] b.t = "Atomic" -> line_count + b.h
           [] b.t = "Disposable" -> line_count
           [] b.t = "Point" -> line_count + b.bps[1].line_no
           [] b.t = "List" ->
                IF b.bps # <<>> THEN line_count + b.bps[1].line_no
                ELSE ltfb_loop(Tail(train), line_count)

\* TextElement<Slug>::lines_to_first_break
lines_to_first_break(elem) ==
    ltfb_loop(elem.train,
              IF elem.break_info.t = "Forbidden"
              THEN 1 + elem.break_info.h + elem.padding_after
              ELSE 1)

----------------------------------------------------------------------------
(* Elements, document.rs and document/reader.rs *)

\* Token lists of text elements, as the reader leaves them in elem.tokens
\* when the element is closed.  An element names its list by position
\* (field tok; 0 for no tokens).
OneWordPerLine(h, n) ==
    [i \in 1..(2 * h - 1) |-> IF i % 2 = 1 THEN Word(n) ELSE Space(1)]

Sentence(h, n) == OneWordPerLine(h, n) \o <<FullStop>>

Texts ==
    << <<Word(5)>>,                                         \* 1: one word
       Sentence(1, 20),                                     \* 2: one line
       Sentence(3, 20),                                     \* 3: 3 lines
       Sentence(2, 20) \o <<Space(2)>> \o Sentence(2, 20),  \* 4: 2 + 2
       Sentence(1, 20) \o <<Space(2)>> \o Sentence(1, 20)
           \o <<Space(2)>> \o Sentence(2, 20),              \* 5: 1 + 1 + 2
       <<Word(20), LineBreakToken>>,                        \* 6: ends in br
       Sentence(1, 10) \o <<Space(2)>> \o Sentence(1, 10) >>\* 7: 2 on a line

\* A paragraph of h lines without a sentence end, for each h up to the
\* height of a page
Filler(h) == Len(Texts) + h

TokenCatalogue ==
    Texts \o [h \in 1..(TOP_LINE - BOTTOM_LINE + 1) |-> OneWordPerLine(h, 30)]

tokens_of(elem) == IF elem.tok = 0 THEN <<>> ELSE TokenCatalogue[elem.tok]

\* An element: the variant (type) and the fields of TextElement,
\* EmptyElement and of the attribute structs; unused fields are 0.
Element(type, tok, indent, left_margin, right_margin, tab_stop, number, padding_before, padding_after) ==
    [type |-> type, tok |-> tok, indent |-> indent,
     left_margin |-> left_margin, right_margin |-> right_margin,
     tab_stop |-> tab_stop, number |-> number,
     padding_before |-> padding_before, padding_after |-> padding_after,
     break_info |-> BNone, train |-> <<>>, at_scene_end |-> FALSE,
     numbering |-> "None"]

\* Reader::run, Event::Start / Event::Empty: the element pushed for a tag.
\* act_no and scene_no are next_act_no and next_scene_no; after_open tells
\* whether the last child of the enclosing Body is an Open.
start_element(tag, tok, act_no, scene_no, after_open) ==
    CASE tag = "act" ->
           Element("Act", tok, 0, 0, 0, 0, act_no,
                   IF act_no = 1 THEN 0 ELSE -1, 1)
      [] tag = "cue"  -> Element("Cue", tok, 0, 0, 0, CUE_BEGIN, 0, 1, 0)
      [] tag = "d"    -> Element("D", tok, 0, D_BEGIN, D_END, 0, 0, 0, 0)
      [] tag = "dir"  -> Element("Dir", tok, 0, DIR_BEGIN, DIR_END, 0, 0, 0, 0)
      [] tag = "end"  -> Element("End", tok, 0, 0, 0, 0, 0, 1, 0)
      [] tag = "open" -> Element("Open", tok, 0, 0, 0, P_BEGIN, 0, 0, 1)
      [] tag = "p"    -> Element("P", tok, 0, P_BEGIN, P_END, 0, 0, 1, 1)
      [] tag = "slug" ->
           Element("Slug", tok, 0, P_BEGIN, P_END, 0, scene_no,
                   IF after_open THEN 1 ELSE 2, 1)
      [] tag = "trans" ->
           Element("Trans", tok, 0, 0, TRANS_END, TRANS_BEGIN, 0, 1, 1)
      [] tag = "br"        -> Element("Br", 0, 0, 0, 0, 0, 0, 0, 0)
      [] tag = "pageBreak" -> Element("PageBreak", 0, 0, 0, 0, 0, 0, 0, 0)

\* Which variants carry padding attributes (get_padding_before /
\* get_padding_after return Some)
HasPadding(elem) ==
    elem.type \in {"Act", "Trans", "Cue", "D", "Dir", "End", "Open", "P",
                   "Series", "Slug", "Title"}

\* An on_exit that gives every D and P a List, however short
exit_break_info_always_list(elem, tokens) ==
    LET w == elem.right_margin - elem.left_margin + 1 IN
    CASE elem.type \in {"D", "P"} -> List(find_break_points(tokens, w))
      [] elem.type \in {"Dir", "Slug"} -> Forbidden(count_lines(tokens, w))
      [] elem.type = "Cue" -> Forbidden(1)
      [] OTHER -> Atomic(1)

\* State::on_exit, the break descriptor set when the element is closed
\* (tokens: the element's token list after trimming)
exit_break_info(elem, tokens) ==
    LET w == elem.right_margin - elem.left_margin + 1 IN
    CASE elem.type \in {"Act", "End", "Open", "Series", "Trans"} -> Atomic(1)
      [] elem.type = "Br" -> Disposable(1)
      [] elem.type = "Cue" -> Forbidden(1)
      [] elem.type \in {"D", "P"} ->
           LET b == find_break_points(tokens, w) IN
           IF Len(b) = 1 THEN Atomic(b[1].line_no) ELSE List(b)
      [] elem.type \in {"Dir", "Slug"} -> Forbidden(count_lines(tokens, w))
      [] elem.type = "Title" -> Atomic(count_lines(tokens, w))
      [] elem.type = "PageBreak" -> Mandatory
      [] OTHER -> BNone

----------------------------------------------------------------------------
(* Post-passes of Reader::run, document/reader.rs *)

\* A Rust range a .. b (exclusive) and a ..= b (inclusive) as the sequence
\* of the indexes it yields; both are empty when a > b.
Range(a, b)     == [k \in 1..(b - a) |-> a + k - 1]
RangeIncl(a, b) == [k \in 1..(b - a + 1) |-> a + k - 1]

\* A train that takes every D and Dir after the cue, not only the run
RECURSIVE cue_train_through(_, _)
cue_train_through(children, k) ==
    IF k >= Len(children) THEN <<>>
    ELSE (IF children[k + 1].type \in {"D", "Dir"}
          THEN <<children[k + 1].break_info>> ELSE <<>>)
         \o cue_train_through(children, k + 1)

\* The inner loop of build_trains for a Cue: the descriptors of the run of
\* D and Dir elements at 0-based indexes k .. n - 1
RECURSIVE cue_train(_, _)
cue_train(children, k) ==
    IF k >= Len(children) THEN <<>>
    ELSE IF children[k + 1].type \in {"D", "Dir"}
         THEN <<children[k + 1].break_info>> \o cue_train(children, k + 1)
         ELSE <<>>

\* The inner loop of build_trains for a Slug at 0-based index i
slug_train(children, i) ==
    IF i + 1 >= Len(children) THEN <<>>
    ELSE LET next == children[i + 2] IN
         IF next.type = "Cue" THEN <<next.break_info>> \o next.train
         ELSE IF next.type = "P" THEN <<next.break_info>>
         ELSE <<>>

\* build_trains: the trains of the cues are set first, then those of the
\* slugs; both loops run over the indexes 0 .. n - 1 (exclusive).
build_trains(children) ==
    LET n    == Len(children)
        idx  == {Range(0, n - 1)[k] : k \in 1..Len(Range(0, n - 1))}
        cues == [m \in 1..n |->
                    IF (m - 1) \in idx /\ children[m].type = "Cue"
                    THEN [children[m] EXCEPT
                             !.train = cue_train(children, m)]
                    ELSE children[m]]
    IN  [m \in 1..n |->
            IF (m - 1) \in idx /\ cues[m].type = "Slug"
            THEN [cues[m] EXCEPT !.train = slug_train(cues, m - 1)]
            ELSE cues[m]]

\* The variants the first loop of mark_scene_endings marks
SceneEndTypes ==
    {"Act", "Cue", "D", "Dir", "Em", "End", "FullName", "Open", "P",
     "Series", "Slug", "Title", "Trans"}

\* The inner loop of the first pass: over the 0-based indexes js, mark the
\* first element of a marked variant and stop
RECURSIVE mark_first(_, _)
mark_first(children, js) ==
    IF js = <<>> THEN children
    ELSE IF children[Head(js) + 1].type \in SceneEndTypes
         THEN [children EXCEPT ![Head(js) + 1].at_scene_end = TRUE]
         ELSE mark_first(children, Tail(js))

\* The inner loop of the second pass for a D or Dir: walk back over D and
\* Dir elements to the Cue and mark it
RECURSIVE mark_cue(_, _)
mark_cue(children, js) ==
    IF js = <<>> THEN children
    ELSE LET t == children[Head(js) + 1].type IN
         IF t = "Cue"
         THEN [children EXCEPT ![Head(js) + 1].at_scene_end = TRUE]
         ELSE IF t \in {"D", "Dir"} THEN mark_cue(children, Tail(js))
         ELSE children

RECURSIVE mse_pass1(_, _)
mse_pass1(children, is) ==
    IF is = <<>> THEN children
    ELSE LET i == Head(is) IN
         mse_pass1(IF children[i + 1].type = "Slug"
                   THEN mark_first(children, RangeIncl(i - 1, 0))
                   ELSE children,
                   Tail(is))

RECURSIVE mse_pass2(_, _)
mse_pass2(children, is) ==
    IF is = <<>> THEN children
    ELSE LET i == Head(is)
             e == children[i + 1]
         IN  mse_pass2(
                 IF e.type \in {"D", "Dir"} /\ e.at_scene_end
                 THEN mark_cue(children, RangeIncl(i - 1, 0))
                 ELSE IF e.type = "P" /\ e.at_scene_end
                         /\ children[i].type = "Slug"
                 THEN [children EXCEPT ![i].at_scene_end = TRUE]
                 ELSE children,
                 Tail(is))

\* mark_scene_endings
mark_scene_endings(children) ==
    LET n == Len(children) IN
    mse_pass2(mse_pass1(children, Range(1, n)), Range(1, n))

----------------------------------------------------------------------------
(* The formatter, document/formatter.rs *)

TITLE_SKIP == 19

\* A slot of Page.lines: None (a blank slot) or Some(line).  A line is
\* recorded by what it prints (kind), a number (the cue's position in the
\* element stream for a cue line and its reprint; the scene page number
\* printed after CONTINUED:, 0 when none is printed) and the scene label
\* add_numbering decorates it with (0 when none).
Ln(kind, n, label) == [kind |-> kind, n |-> n, label |-> label]
Blank == Ln("None", 0, 0)

\* struct Page
Page(number) ==
    [number |-> number, height |-> TOP_LINE - BOTTOM_LINE + 1,
     lines |-> <<>>, footer |-> <<>>]

\* Formatter::new
NewFormatter ==
    [title |-> "Working Title", body |-> <<>>, next_page_no |-> 1,
     last_padding_after |-> 0, break_selection |-> <<>>, cur_cue |-> <<>>,
     numbering |-> "None", cur_scene |-> <<>>, scene_page_no |-> -1]

\* A page start that numbers every page alike
start_a_new_page_unnumbered(s) ==
    [s EXCEPT !.body = Append(@, Page(s.next_page_no)),
              !.last_padding_after = 0,
              !.scene_page_no = IF @ >= 0 THEN @ + 1 ELSE @]

start_a_new_page(s) ==
    [s EXCEPT !.body = Append(@, Page(s.next_page_no)),
              !.next_page_no = @ + 1,
              !.last_padding_after = 0,
              !.scene_page_no = IF @ >= 0 THEN @ + 1 ELSE @]

\* cur_page().lines
cur_lines(s) == Last(s.body).lines

\* cur_page().lines.push(slot)
push(s, slot) == [s EXCEPT !.body[Len(s.body)].lines = Append(@, slot)]

lines_remaining(s) ==
    IF s.body # <<>> THEN Last(s.body).height - Len(cur_lines(s)) ELSE 0

push_blank_lines(s, n) ==
    LET m == Min(n, lines_remaining(s)) IN
    IF m > 0
    THEN [s EXCEPT !.body[Len(s.body)].lines = @ \o Repeat(Blank, m)]
    ELSE s

\* The label add_numbering prints on a line (0: nothing is added)
add_numbering(s, label) == IF s.numbering # "None" THEN label ELSE 0

\* A header without the scene label
push_continued_top_unlabelled(s) ==
    LET no == IF s.scene_page_no > 1 THEN s.scene_page_no ELSE 0
    IN  push_blank_lines(push(s, Ln("CONTINUED:", no, 0)), 1)

push_continued_top(s) ==
    LET no    == IF s.scene_page_no > 1 THEN s.scene_page_no ELSE 0
        label == IF s.cur_scene # <<>>
                 THEN add_numbering(s, s.cur_scene[1]) ELSE 0
    IN  push_blank_lines(push(s, Ln("CONTINUED:", no, label)), 1)

push_continued_bottom(s) ==
    push(push_blank_lines(s, 1), Ln("(CONTINUED)", 0, 0))

\* for mut line in lines { ...; cur_page().lines.push(Some(line)) }
push_lines(s, kind, lines) ==
    [s EXCEPT !.body[Len(s.body)].lines =
                  @ \o [k \in 1..Len(lines) |-> Ln(kind, 0, 0)]]

in_scene(s) == s.scene_page_no >= 0

\* The three steps that take the flow to a new page inside or outside a
\* scene: footer, new page, header
continue_on_new_page(s) ==
    LET s1 == IF in_scene(s) THEN push_continued_bottom(s) ELSE s
        s2 == start_a_new_page(s1)
    IN  IF in_scene(s2) THEN push_continued_top(s2) ELSE s2

\* A loop head that starts no page for a negative padding_before
padding_no_break(s, elem) ==
    LET n == IF HasPadding(elem) THEN elem.padding_before ELSE 0
    IN  [s |-> IF HasPadding(elem)
               THEN [s EXCEPT !.last_padding_after = elem.padding_after]
               ELSE s,
         padding_before |-> IF n < 0 THEN -n - 1 ELSE n,
         padding_after  |-> s.last_padding_after]

\* run, the head of the loop body: padding_before (a negative value starts
\* a new page), the previous element's padding_after, and the update of
\* last_padding_after
padding(s, elem) ==
    LET n  == IF HasPadding(elem) THEN elem.padding_before ELSE 0
        s1 == IF n < 0 THEN start_a_new_page(s) ELSE s
    IN  [s |-> IF HasPadding(elem)
               THEN [s1 EXCEPT !.last_padding_after = elem.padding_after]
               ELSE s1,
         padding_before |-> IF n < 0 THEN -n - 1 ELSE n,
         padding_after  |-> s1.last_padding_after]

\* The width a text element is wrapped to
width(elem) == elem.right_margin - elem.left_margin + 1

\* run, ElementType::Act
run_Act(s, elem, pb, pa) ==
    LET s1 == IF cur_lines(s) # <<>> THEN push_blank_lines(s, Max(pb, pa))
              ELSE s
    IN  push(s1, Ln("Act", 0, 0))

\* run, ElementType::Br
run_Br(s) == push_blank_lines(s, 1)

\* A cue arm that pushes the cue line before it breaks the page
run_Cue_late_break(s, elem, pb, pa, id) ==
    LET h  == Cue_count_lines(elem.train)
        r0 == lines_remaining(s)
        r1 == IF in_scene(s) /\ ~elem.at_scene_end THEN r0 - 2 ELSE r0
        line == Ln("Cue", id, 0)
    IN  IF r1 < h + pb /\ r1 >= 1
        THEN continue_on_new_page(push([s EXCEPT !.cur_cue = <<line>>], line))
        ELSE push([push_blank_lines(s, Max(pb, pa))
                      EXCEPT !.cur_cue = <<line>>], line)

\* run, ElementType::Cue; id is the cue's position in the element stream
run_Cue(s, elem, pb, pa, id) ==
    LET h  == Cue_count_lines(elem.train)
        r0 == lines_remaining(s)
        r1 == IF in_scene(s) /\ ~elem.at_scene_end THEN r0 - 2 ELSE r0
        line == Ln("Cue", id, 0)
        placed ==
            IF r1 < h + pb THEN
                LET r2  == IF in_scene(s) /\ elem.at_scene_end
                           THEN r1 - 2 ELSE r1
                    sel == Cue_select_break(elem.train, r2 - pb)
                IN  IF sel.i >= 0
                    THEN push_blank_lines(
                             [s EXCEPT !.break_selection =
                                 @ \o Repeat(<<>>, sel.i) \o << <<sel.b>> >>],
                             Max(pb, pa))
                    ELSE continue_on_new_page(s)
            ELSE IF cur_lines(s) = <<>> /\ in_scene(s)
                 THEN push_continued_top(s)
                 ELSE push_blank_lines(s, Max(pb, pa))
    IN  push([placed EXCEPT !.cur_cue = <<line>>], line)

\* A split that leaves (MORE) out
more_and_continue_silent(s) ==
    LET s1 == continue_on_new_page(s) IN
    IF s1.cur_cue # <<>>
    THEN push([s1 EXCEPT !.cur_cue = <<>>],
              Ln("(CONT'D)", s1.cur_cue[1].n, 0))
    ELSE s1

\* run, ElementType::D: (MORE), footer, new page, header and the reprint
\* of the cached cue with (CONT'D)
more_and_continue(s) ==
    LET s1 == continue_on_new_page(push(s, Ln("(MORE)", 0, 0))) IN
    IF s1.cur_cue # <<>>
    THEN push([s1 EXCEPT !.cur_cue = <<>>],
              Ln("(CONT'D)", s1.cur_cue[1].n, 0))
    ELSE s1

\* run, ElementType::D
run_D(s, elem, pb, pa) ==
    LET w      == width(elem)
        tokens == tokens_of(elem)
        s1     == push_blank_lines(s, Max(pb, pa))
    IN  IF s1.break_selection # <<>> THEN
            LET sel == Head(s1.break_selection)
                s2  == [s1 EXCEPT !.break_selection = Tail(@)]
            IN  IF sel = <<>> THEN
                    push_lines(s2, "D", linebreak_fill(tokens, w))
                ELSE IF sel[1].t = "Atomic" THEN
                    more_and_continue(
                        push_lines(s2, "D", linebreak_fill(tokens, w)))
                ELSE IF sel[1].t = "Point" THEN
                    LET ti == sel[1].bps[1].token_index
                        s3 == push_lines(s2, "D",
                                  linebreak_fill(Slice(tokens, 1, ti), w))
                    IN  push_lines(more_and_continue(s3), "D",
                            linebreak_fill(
                                Slice(tokens, ti + 1, Len(tokens)), w))
                ELSE s2
        ELSE push_lines(s1, "D", linebreak_fill(tokens, w))

\* A Dir arm that leaves break_selection alone
run_Dir_no_pop(s, elem) ==
    push_lines(s, "Dir", linebreak_fill(tokens_of(elem), width(elem)))

\* run, ElementType::Dir
run_Dir(s, elem) ==
    LET s1 == IF s.break_selection # <<>>
              THEN [s EXCEPT !.break_selection = Tail(@)] ELSE s
    IN  push_lines(s1, "Dir", linebreak_fill(tokens_of(elem), width(elem)))

\* run, ElementType::End
run_End(s, elem, pb, pa) ==
    LET s1 == IF lines_remaining(s) < pb + 1 THEN
                  LET t == start_a_new_page(s) IN
                  IF in_scene(t) THEN push_continued_top(t) ELSE t
              ELSE IF cur_lines(s) # <<>> THEN
                  LET t == push_blank_lines(s, Max(pb, pa))
                      r == lines_remaining(t) - pb
                  IN  IF r > 0 THEN push_blank_lines(t, Min(r, 4)) ELSE t
              ELSE s
    IN  [push(s1, Ln("End", 0, 0)) EXCEPT
            !.cur_scene = <<>>, !.scene_page_no = -1]

\* run, ElementType::Open
run_Open(s, elem, pb, pa) ==
    LET s1 == IF lines_remaining(s) < pb + 1 THEN
                  LET t == start_a_new_page(s) IN
                  IF in_scene(t) THEN push_continued_top(t) ELSE t
              ELSE IF cur_lines(s) # <<>>
                   THEN push_blank_lines(s, Max(pb, pa))
              ELSE s
    IN  push(s1, Ln("Open", 0, 0))

\* run, ElementType::P
run_P(s, elem, pb, pa) ==
    LET h  == P_count_lines(elem.break_info)
        r0 == lines_remaining(s)
        r  == IF in_scene(s) /\ ~elem.at_scene_end THEN r0 - 2 ELSE r0
        sel == IF r > 0 /\ r < h + pb
               THEN P_select_break(elem.break_info, r - pb) ELSE BNone
        s1 == IF r <= 0 THEN continue_on_new_page(s)
              ELSE IF r < h + pb THEN
                  CASE sel.t = "Mandatory" -> continue_on_new_page(s)
                    [] sel.t \in {"Point", "None"} ->
                         push_blank_lines(s, Max(pb, pa))
                    [] OTHER -> s
              ELSE IF cur_lines(s) # <<>>
                   THEN push_blank_lines(s, Max(pb, pa))
              ELSE s
        w      == width(elem)
        tokens == tokens_of(elem)
    IN  IF sel.t = "Point" THEN
            LET ti == sel.bps[1].token_index
                s2 == push_lines(s1, "P",
                          linebreak_fill(Slice(tokens, 1, ti), w))
            IN  push_lines(continue_on_new_page(s2), "P",
                    linebreak_fill(Slice(tokens, ti + 1, Len(tokens)), w))
        ELSE push_lines(s1, "P", linebreak_fill(tokens, w))

\* A D arm that leaves the token at the break point out of the second
\* slice
D_slices_drop(s, elem) ==
    LET tokens == tokens_of(elem)
        q      == s.break_selection
    IN  IF q # <<>> /\ Head(q) # <<>> /\ Head(q)[1].t = "Point"
        THEN LET ti == Head(q)[1].bps[1].token_index
             IN  <<Slice(tokens, 1, ti), Slice(tokens, ti + 2, Len(tokens))>>
        ELSE <<tokens>>

\* run, ElementType::D: the slices of elem.tokens handed to linebreak_fill,
\* in order, for the entry at the front of break_selection
D_slices(s, elem) ==
    LET tokens == tokens_of(elem)
        q      == s.break_selection
    IN  IF q = <<>> \/ Head(q) = <<>> THEN <<tokens>>
        ELSE IF Head(q)[1].t = "Atomic" THEN <<tokens>>
        ELSE IF Head(q)[1].t = "Point" THEN
            LET ti == Head(q)[1].bps[1].token_index
            IN  <<Slice(tokens, 1, ti), Slice(tokens, ti + 1, Len(tokens))>>
        ELSE <<>>

\* run, ElementType::P: the slices of elem.tokens handed to linebreak_fill,
\* in order, for the break select_break gives
P_slices(s, elem, pb) ==
    LET h  == P_count_lines(elem.break_info)
        r0 == lines_remaining(s)
        r  == IF in_scene(s) /\ ~elem.at_scene_end THEN r0 - 2 ELSE r0
        sel == IF r > 0 /\ r < h + pb
               THEN P_select_break(elem.break_info, r - pb) ELSE BNone
        tokens == tokens_of(elem)
    IN  IF sel.t = "Point" THEN
            LET ti == sel.bps[1].token_index
            IN  <<Slice(tokens, 1, ti), Slice(tokens, ti + 1, Len(tokens))>>
        ELSE <<tokens>>

\* run, ElementType::PageBreak
run_PageBreak(s) == continue_on_new_page(s)

\* A Screenplay arm that starts no page
run_Screenplay_no_page(s, elem) == [s EXCEPT !.numbering = elem.numbering]

\* run, ElementType::Screenplay
run_Screenplay(s, elem) ==
    start_a_new_page([s EXCEPT !.numbering = elem.numbering])

\* run, ElementType::Slug
run_Slug(s, elem, pb, pa) ==
    LET s1 == IF s.numbering # "None"
              THEN [s EXCEPT !.cur_scene = <<elem.number>>,
                             !.scene_page_no = 0]
              ELSE s
        label == IF s.numbering # "None" THEN elem.number ELSE 0
        lines == linebreak_fill(tokens_of(elem), width(elem))
        h  == lines_to_first_break(elem)
        r  == lines_remaining(s1) - 2
        s2 == IF r < h + pb THEN start_a_new_page(s1)
              ELSE IF cur_lines(s1) # <<>>
                   THEN push_blank_lines(s1, Max(pb, pa))
              ELSE s1
    IN  [s2 EXCEPT !.body[Len(s2.body)].lines =
            @ \o [k \in 1..Len(lines) |->
                     Ln("Slug", 0, IF k = 1 THEN add_numbering(s2, label)
                                   ELSE 0)]]

\* run, ElementType::Trans
run_Trans(s, elem, pb, pa) ==
    LET s1 == IF lines_remaining(s) < 1 + pb THEN
                  start_a_new_page(
                      IF in_scene(s) THEN push_continued_bottom(s) ELSE s)
              ELSE IF cur_lines(s) # <<>>
                   THEN push_blank_lines(s, Max(pb, pa))
              ELSE s
    IN  [push(s1, Ln("Trans", 0, 0)) EXCEPT
            !.cur_scene = <<>>, !.scene_page_no = -1]

\* format_fly_page for a document without head elements
format_fly_page ==
    [number |-> -1, height |-> TOP_LINE - BOTTOM_LINE + 1,
     lines |-> Repeat(Blank, TITLE_SKIP) \o <<Blank, Blank>>
               \o <<Ln("written by", 0, 0), Blank>>,
     footer |-> <<>>]

----------------------------------------------------------------------------
(* Documents *)

\* How many groups of elements follow the opening of a document
MaxTail == 2
\* How far short of a full page the opening paragraph may fall
MaxSlack == 8

Height == TOP_LINE - BOTTOM_LINE + 1

Tag(tag, tok) == [tag |-> tag, tok |-> tok]

\* Reader::run over the tags of a body: the children of the Body element
\* before the post-passes
RECURSIVE read_children(_, _, _, _)
read_children(tags, children, act_no, scene_no) ==
    IF tags = <<>> THEN children
    ELSE LET t  == Head(tags)
             e  == start_element(t.tag, t.tok, act_no, scene_no,
                       children # <<>> /\ Last(children).type = "Open")
             e1 == [e EXCEPT !.break_info = exit_break_info(e, tokens_of(e))]
         IN  read_children(Tail(tags), Append(children, e1),
                 IF t.tag = "act" THEN act_no + 1 ELSE act_no,
                 IF t.tag = "slug" THEN scene_no + 1 ELSE scene_no)

\* The stream root.into_iter() yields for <screenplay numbering=..>
\* <body> tags </body></screenplay>
Document(numbering, tags) ==
    << [Element("Screenplay", 0, 0, 0, 0, 0, 0, 0, 0)
           EXCEPT !.numbering = numbering],
       Element("Body", 0, 0, 0, 0, 0, 0, 0, 0) >>
    \o mark_scene_endings(build_trains(read_children(tags, <<>>, 1, 1)))

Groups ==
    { <<Tag("slug", 1)>>,
      <<Tag("pageBreak", 0), Tag("br", 0)>>,
      <<Tag("trans", 1), Tag("end", 1)>>,
      <<Tag("act", 1), Tag("open", 1), Tag("slug", 1)>>,
      <<Tag("cue", 1), Tag("p", 4)>>,
      <<Tag("cue", 1), Tag("d", 6), Tag("d", 4)>>,
      <<Tag("cue", 1), Tag("dir", 1), Tag("d", 5)>>,
      <<Tag("cue", 1), Tag("d", 2), Tag("d", 3)>>,
      <<Tag("cue", 1), Tag("d", 6), Tag("d", 0)>> }

Tails ==
    UNION { {Concat(gs) : gs \in [1..k -> Groups]} : k \in 0..MaxTail }

\* A paragraph that leaves d lines of the first page free
PlainOpenings ==
    { <<Tag("p", Filler(Height - d))>> : d \in 0..MaxSlack }

\* The same under a slug line (the paragraph moves to the next page when
\* d < 3, because two lines are kept for the footer)
SceneOpenings ==
    { <<Tag("slug", 1), Tag("p", Filler(Height - 2 - d))>> :
        d \in 0..MaxSlack }

\* Without numbering a slug line opens no scene and the flow is that of a
\* numbered document outside a scene; the openings are left out
Sources ==
    {x \in ({"Full"} \X ({<<>>} \cup PlainOpenings \cup SceneOpenings)
                     \X Tails)
            \cup ({"None"} \X {<<>>} \X Tails) :
        x[2] \o x[3] # <<>>}

----------------------------------------------------------------------------
(* Formatter::run as a state machine: one step per element of the stream,
   then the fly page *)

NoPop == [t |-> "-", page |-> 0, token_index |-> 0]

Init ==
    /\ \E x \in Sources : elems = Document(x[1], x[2] \o x[3])
    /\ pos = 0
    /\ f = NewFormatter
    /\ popped = NoPop
    /\ op = "run" /\ arg = <<>> /\ res = <<>>

Running == pos < Len(elems) /\ op = "run"
elem == elems[pos + 1]
pad == padding(f, elem)

Step(type, next) ==
    /\ Running
    /\ elem.type = type
    /\ f' = next
    /\ pos' = pos + 1
    /\ UNCHANGED <<elems, op, arg, res>>

Screenplay ==
    Step("Screenplay", run_Screenplay(pad.s, elem)) /\ popped' = NoPop
Body == Step("Body", pad.s) /\ popped' = NoPop
Act ==
    Step("Act", run_Act(pad.s, elem, pad.padding_before, pad.padding_after))
    /\ popped' = NoPop
Br == Step("Br", run_Br(pad.s)) /\ popped' = NoPop
Cue ==
    Step("Cue", run_Cue(pad.s, elem, pad.padding_before, pad.padding_after,
                        pos + 1))
    /\ popped' = NoPop

\* What break_selection.pop_front() gives a D or Dir (the variant and, for
\* a Point, its token_index), and the page that is current when it is
\* taken
pop_front(s) ==
    LET q == s.break_selection IN
    [t |-> IF q = <<>> THEN "Empty"
           ELSE IF Head(q) = <<>> THEN "None"
           ELSE Head(q)[1].t,
     page |-> Len(s.body),
     token_index |-> IF q # <<>> /\ Head(q) # <<>> /\ Head(q)[1].t = "Point"
                     THEN Head(q)[1].bps[1].token_index ELSE 0]

D ==
    Step("D", run_D(pad.s, elem, pad.padding_before, pad.padding_after))
    /\ popped' = pop_front(pad.s)
Dir ==
    Step("Dir", run_Dir(pad.s, elem)) /\ popped' = pop_front(pad.s)
End ==
    Step("End", run_End(pad.s, elem, pad.padding_before, pad.padding_after))
    /\ popped' = NoPop
Open ==
    Step("Open", run_Open(pad.s, elem, pad.padding_before,
                          pad.padding_after))
    /\ popped' = NoPop
P ==
    Step("P", run_P(pad.s, elem, pad.padding_before, pad.padding_after))
    /\ popped' = NoPop
PageBreak == Step("PageBreak", run_PageBreak(pad.s)) /\ popped' = NoPop
Slug ==
    Step("Slug", run_Slug(pad.s, elem, pad.padding_before,
                          pad.padding_after))
    /\ popped' = NoPop
Trans ==
    Step("Trans", run_Trans(pad.s, elem, pad.padding_before,
                            pad.padding_after))
    /\ popped' = NoPop

\* The end of run: the fly page goes in front of the body
Finish ==
    /\ op = "run" /\ pos = Len(elems) /\ f.title = "Working Title"
    /\ f' = [f EXCEPT !.title = "", !.body = <<format_fly_page>> \o @]
    /\ popped' = NoPop
    /\ UNCHANGED <<elems, pos, op, arg, res>>

Done == op = "run" /\ pos = Len(elems) /\ f.title # "Working Title"

Next ==
    \/ Screenplay \/ Body \/ Act \/ Br \/ Cue \/ D \/ Dir \/ End \/ Open
    \/ P \/ PageBreak \/ Slug \/ Trans \/ Finish

Spec == Init /\ [][Next]_vars

----------------------------------------------------------------------------
(* Properties of the pages *)

\* The body slots of a page that hold a line
printed(page) == SelectSeq(page.lines, LAMBDA l : l.kind # "None")

\* How many slots of all pages satisfy Test
count_lines_where(Test(_)) ==
    LET n(i) == Len(SelectSeq(f.body[i].lines, Test))
        sum[i \in 0..Len(f.body)] == IF i = 0 THEN 0 ELSE sum[i - 1] + n(i)
    IN  sum[Len(f.body)]

\* C1: at every step of run, no page holds more body slots (blank ones
\* included) than its height
C1_PageHeight ==
    \A i \in 1..Len(f.body) : Len(f.body[i].lines) <= f.body[i].height

\* The cue lines of a page: an original cue line or its reprint
is_cue_line(l) == l.kind \in {"Cue", "(CONT'D)"}

\* The D and Dir elements that follow the cue at stream position id
\* without interruption
RECURSIVE followers(_)
followers(k) ==
    IF k < Len(elems) /\ elems[k + 1].type \in {"D", "Dir"}
    THEN {k + 1} \cup followers(k + 1)
    ELSE {}

\* Is the cue at stream position id followed by at least one D or Dir
\* element, each of them printing at least one line?
speaks(id) ==
    /\ followers(id) # {}
    /\ \A k \in followers(id) :
           linebreak_fill(tokens_of(elems[k]), width(elems[k])) # <<>>

split == popped.t \in {"Point", "Atomic"}

\* The page that ends the prefix of the split, and the page after it
prefix_page == f.body[popped.page]
next_page == f.body[popped.page + 1]

\* C3: when a D is split, the page that ends the prefix has (MORE) as its
\* last body line and (CONTINUED) among its footer lines
C3_MoreAndFooter ==
    split =>
        /\ prefix_page.lines # <<>>
        /\ Last(prefix_page.lines).kind = "(MORE)"
        /\ \E k \in 1..Len(prefix_page.footer) :
               prefix_page.footer[k].kind = "(CONTINUED)"

\* The body slots of a page after its last (MORE)
after_more(page) ==
    LET at == {k \in 1..Len(page.lines) : page.lines[k].kind = "(MORE)"} IN
    IF at = {} THEN page.lines
    ELSE Slice(page.lines, (CHOOSE k \in at : \A m \in at : m <= k) + 1,
               Len(page.lines))

\* C3, amended: when a D is split, the page that ends the prefix has (MORE)
\* as its last body line outside a scene; inside a scene (MORE) is followed
\* in the body lines by at most one blank slot and the (CONTINUED) line,
\* and the footer lines stay empty
C3_MoreThenContinued ==
    split =>
        /\ \E k \in 1..Len(prefix_page.lines) :
               prefix_page.lines[k].kind = "(MORE)"
        /\ prefix_page.footer = <<>>
        /\ IF in_scene(f)
           THEN after_more(prefix_page) \in
                    { <<Ln("(CONTINUED)", 0, 0)>>,
                      <<Blank, Ln("(CONTINUED)", 0, 0)>> }
           ELSE after_more(prefix_page) = <<>>

\* A D was split at a point inside a scene
C3_Witness == popped.t = "Point" /\ in_scene(f)

\* The lines of the D at the last dispatched position that follow its
\* break point (none when the whole D went before the break)
suffix_lines ==
    LET d == elems[pos]
        tokens == tokens_of(d)
    IN  IF popped.t = "Point"
        THEN linebreak_fill(
                 Slice(tokens, popped.token_index + 1, Len(tokens)),
                 width(d))
        ELSE <<>>

\* The cue the D at the last dispatched position belongs to
RECURSIVE cue_of(_)
cue_of(k) == IF elems[k].type = "Cue" \/ k = 1 THEN k ELSE cue_of(k - 1)

\* C4: when a D is split, the next page opens with the CONTINUED: header
\* (with the scene label when numbering is on), then the cue line with
\* (CONT'D), then the rest of the dialogue; the cue is reprinted once
C4_HeaderThenCue ==
    split =>
        /\ Len(next_page.lines) >= 2
        /\ next_page.lines[1].kind = "CONTINUED:"
        /\ f.numbering # "None" /\ f.cur_scene # <<>> =>
               next_page.lines[1].label = f.cur_scene[1]
        /\ LET ls == printed(next_page) IN
           /\ Len(ls) = 2 + Len(suffix_lines)
           /\ ls[2] = Ln("(CONT'D)", cue_of(pos), 0)
           /\ \A k \in 3..Len(ls) : ls[k].kind = "D"
        /\ count_lines_where(LAMBDA l : l = Ln("(CONT'D)", cue_of(pos), 0))
               = 1

\* C4, amended: when a D is split, the next page opens with the CONTINUED:
\* header carrying the scene label and a blank slot if the split is inside
\* a scene, and with the cue line otherwise; the cue line with (CONT'D) is
\* followed by the rest of the dialogue; the cue is reprinted once
C4_CueAfterHeaderInScene ==
    split =>
        /\ popped.page + 1 = Len(f.body)
        /\ next_page.lines =
               (IF in_scene(f)
                THEN << Ln("CONTINUED:",
                           IF f.scene_page_no > 1 THEN f.scene_page_no
                           ELSE 0,
                           f.cur_scene[1]),
                        Blank >>
                ELSE <<>>)
               \o << Ln("(CONT'D)", cue_of(pos), 0) >>
               \o [k \in 1..Len(suffix_lines) |-> Ln("D", 0, 0)]
        /\ count_lines_where(LAMBDA l : l = Ln("(CONT'D)", cue_of(pos), 0))
               = 1

\* A D was split at a point outside a scene and a part of it follows the
\* reprinted cue
C4_Witness == popped.t = "Point" /\ ~in_scene(f) /\ suffix_lines # <<>>

\* Does page i hold the slug line of the scene labelled label?
slug_page(i, label) ==
    \E k \in 1..Len(f.body[i].lines) :
        f.body[i].lines[k] = Ln("Slug", 0, label)

\* C5: the CONTINUED: header on the j-th page of a scene (the page of its
\* slug line being the first) carries the number j, for j >= 2, wherever
\* on its page the slug line was placed
C5_ScenePageNumbers ==
    \A i \in 1..Len(f.body) : \A k \in 1..Len(f.body[i].lines) :
        LET l == f.body[i].lines[k] IN
        l.kind = "CONTINUED:" /\ l.label # 0 =>
            \E ps \in 1..i : /\ slug_page(ps, l.label)
                             /\ l.n = i - ps + 1

----------------------------------------------------------------------------
(* Break selection applied to the descriptors the reader computes *)

\* The longest train and the most lines left on the page
MaxTrain == 3
MaxRemaining == 8

\* The descriptors on_exit gives a D, a Dir and a P holding one of Texts
DEntries ==
    { exit_break_info(start_element("d", 0, 1, 1, FALSE), Texts[k]) :
        k \in 1..Len(Texts) }
DirEntries ==
    { exit_break_info(start_element("dir", 0, 1, 1, FALSE), Texts[k]) :
        k \in 1..2 }
PEntries ==
    { exit_break_info(start_element("p", 0, 1, 1, FALSE), t) :
        t \in {Texts[k] : k \in 1..Len(Texts)}
              \cup {OneWordPerLine(h, 30) : h \in 1..MaxRemaining + 1} }

\* The trains build_trains gives a cue: runs of D and Dir descriptors
Trains ==
    UNION { [1..k -> DEntries \cup DirEntries] : k \in 1..MaxTrain }

SelectInputs ==
    [of : {"Cue"}, train : Trains, break_info : {Forbidden(1)},
     lines_remaining : -1..MaxRemaining]
    \cup [of : {"P"}, train : {<<>>}, break_info : PEntries,
          lines_remaining : -1..MaxRemaining]

SelectInit ==
    /\ elems = <<>> /\ pos = 0 /\ f = NewFormatter /\ popped = NoPop
    /\ op = "init" /\ res = <<>>
    /\ arg \in SelectInputs

\* cue.select_break(lines_remaining)
CueSelectBreak ==
    /\ op = "init" /\ arg.of = "Cue"
    /\ op' = "Cue.select_break"
    /\ res' = Cue_select_break(arg.train, arg.lines_remaining)
    /\ UNCHANGED <<elems, pos, f, popped, arg>>

\* p.select_break(lines_remaining)
PSelectBreak ==
    /\ op = "init" /\ arg.of = "P"
    /\ op' = "P.select_break"
    /\ res' = P_select_break(arg.break_info, arg.lines_remaining)
    /\ UNCHANGED <<elems, pos, f, popped, arg>>

SelectNext == CueSelectBreak \/ PSelectBreak

SpecSelect == SelectInit /\ [][SelectNext]_vars

\* The lines a train entry stands for when the break falls after it
entry_lines(b) ==
    IF b.t = "List" THEN Last(b.bps).line_no ELSE b.h

\* The lines of the entries of train before 0-based index i
lines_before(train, i) ==
    LET sum[k \in 0..i] ==
            IF k = 0 THEN 0 ELSE sum[k - 1] + entry_lines(train[k])
    IN  sum[i]

\* The break candidates of a train in train order: [i, j, b, lines], where
\* j is 0 for a whole Atomic or Disposable entry and the position of the
\* point for a point of a List entry
candidates(train) ==
    UNION { LET b == train[i + 1] IN
            IF b.t \in {"Atomic", "Disposable"}
            THEN {[i |-> i, j |-> 0, b |-> b, lines |-> b.h]}
            ELSE IF b.t = "List"
            THEN {[i |-> i, j |-> j, b |-> Point(b.bps[j]),
                   lines |-> b.bps[j].line_no] : j \in 1..Len(b.bps)}
            ELSE {} : i \in 0..Len(train) - 1 }

\* The candidates that leave room for the cue line before and (MORE) after
viable(train, r) ==
    {c \in candidates(train) :
        1 + lines_before(train, c.i) + c.lines + 1 <= r}

\* C6: Cue.select_break(r) returns (-1, None) when r < 2; when r >= 2 and
\* the cue with its train does not fit in r lines it returns the last
\* viable candidate in train order, and (-1, None) when there is none
C6_LastViableBreak ==
    op = "Cue.select_break" =>
        LET train == arg.train
            r     == arg.lines_remaining
            v     == viable(train, r)
        IN  IF r < 2 THEN res = Ret(-1, BNone)
            ELSE 1 + lines_before(train, Len(train)) > r =>
                   IF v = {} THEN res = Ret(-1, BNone)
                   ELSE \E c \in v :
                          /\ \A d \in v :
                                d.i < c.i \/ (d.i = c.i /\ d.j <= c.j)
                          /\ res = Ret(c.i, c.b)

\* A cue whose train does not fit was given a break at a point of a List
\* entry that is not the first entry of its train
C6_Witness ==
    /\ op = "Cue.select_break"
    /\ arg.lines_remaining >= 2
    /\ 1 + lines_before(arg.train, Len(arg.train)) > arg.lines_remaining
    /\ res.i >= 1 /\ res.b.t = "Point"

\* C7: P.select_break(r) returns None when the paragraph's line count is
\* at most r; otherwise, for a List, the last point with line_no <= r, or
\* Mandatory when there is none, and Mandatory for Atomic
C7_LastPointThatFits ==
    op = "P.select_break" =>
        LET b  == arg.break_info
            r  == arg.lines_remaining
            n  == entry_lines(b)
            ok == IF b.t = "List"
                  THEN {j \in 1..Len(b.bps) : b.bps[j].line_no <= r}
                  ELSE {}
        IN  IF n <= r THEN res = BNone
            ELSE IF b.t = "List" /\ ok # {}
            THEN res = Point(b.bps[CHOOSE j \in ok : \A k \in ok : k <= j])
            ELSE res = Mandatory

\* A paragraph that does not fit was given a break at one of its points
C7_Witness ==
    /\ op = "P.select_break"
    /\ entry_lines(arg.break_info) > arg.lines_remaining
    /\ res.t = "Point"

----------------------------------------------------------------------------
(* The tokenizer, text/parser.rs.  An input string is a sequence of
   characters; an ASCII character is the one-character string, any other
   character the string "U+" and its code point.  The classes below hold
   the characters of each arm of StateMachine::step; is_whitespace and
   is_alphanumeric hold a sample of the characters for which the methods
   of char are true. *)

is_whitespace(ch)   == ch \in {" ", "\t", "\n", "U+00A0"}
is_alphanumeric(ch) == ch \in {"a", "b", "1", "U+00E9"}

CloseChars  == {")", "]", "}", "U+00BB", "U+2019", "U+201D"}
OpenChars   == {"(", "[", "{", "U+00AB", "U+2018", "U+201C"}
PunctChars  == {"!", "'", ",", "-", ".", ":", ";", "?", "U+00A1", "U+00BF",
                "U+2013", "U+2014", "U+2026"}
SymbolChars == {"\"", "#", "$", "%", "&", "*", "+", "/", "<", "=", ">",
                "@", "^", "_", "U+0060", "|", "~", "U+00A2", "U+00A3",
                "U+00A5", "U+00A7", "U+00A9", "U+00AC", "U+00AE", "U+00AF",
                "U+00B0", "U+00B1", "U+00B6", "U+00B7", "U+00D7", "U+00F7",
                "U+20AC"}

\* State<Data>: mode is the variant of StateMachine that wraps the state,
\* text and count are the fields of data
ParserState(mode, text, count, tokens, word_count, dpy, frm) ==
    [mode |-> mode, text |-> text, count |-> count, tokens |-> tokens,
     word_count |-> word_count, dpy |-> dpy, frm |-> frm]

\* State::<ScanData>::new
State_new(tokens, dpy) == ParserState("Scan", <<>>, 0, tokens, 0, dpy, {})

\* State::at_full_stop, scanning the tokens from position k down
RECURSIVE at_full_stop_from(_, _)
at_full_stop_from(tokens, k) ==
    IF k = 0 THEN FALSE
    ELSE IF tokens[k].type = "Close" THEN at_full_stop_from(tokens, k - 1)
    ELSE IF tokens[k].type = "Punct" THEN "FS" \in tokens[k].frm
    ELSE FALSE

\* A machine that never sees a sentence end before a space
at_full_stop_never(st) == FALSE

at_full_stop(st) == at_full_stop_from(st.tokens, Len(st.tokens))

\* State::remove_preceding_full_stop_flag, from position k down
RECURSIVE remove_flags_from(_, _)
remove_flags_from(tokens, k) ==
    IF k = 0 THEN tokens
    ELSE IF tokens[k].type = "Close" THEN remove_flags_from(tokens, k - 1)
    ELSE IF tokens[k].type = "Punct"
         THEN remove_flags_from(
                  [tokens EXCEPT ![k].frm = @ \ {"FS", "EOS"}], k - 1)
    ELSE tokens

\* An escaped space that leaves the flags of the Punct before it
remove_preceding_full_stop_flag_skipped(st) == st

remove_preceding_full_stop_flag(st) ==
    [st EXCEPT !.tokens = remove_flags_from(@, Len(@))]

\* impl From<State<ScanData>> for State<...Data>: enter a token state
from_scan(st, mode) ==
    ParserState(mode, <<>>, 0, st.tokens, st.word_count, st.dpy, {})

\* impl From<State<...Data>> for State<ScanData>: push the token the state
\* has collected and return to Scan
into_scan(st) ==
    LET token == Tok(st.mode, st.text, st.dpy, st.frm)
        space(text) == Tok("Space", text, st.dpy, st.frm \cup {"DLB", "DOB"})
        tokens ==
            CASE st.mode \in {"Close", "Open", "Punct", "Symbol", "Word"} ->
                   Append(st.tokens, token)
              [] st.mode = "Space" ->
                   IF st.tokens # <<>> /\ "MLB" \in Last(st.tokens).frm
                   THEN st.tokens
                   ELSE Append(st.tokens,
                               space(IF at_full_stop(st) THEN <<" ", " ">>
                                     ELSE <<" ">>))
              [] st.mode = "Escape" ->
                   IF st.text = <<"\\">>
                   THEN Append(st.tokens,
                               Tok("Symbol", <<"\\">>, st.dpy, st.frm))
                   ELSE IF st.text = <<" ">>
                   THEN Append(remove_preceding_full_stop_flag(st).tokens,
                               space(<<" ">>))
                   ELSE st.tokens
              [] OTHER -> st.tokens
    IN  ParserState("Scan", <<>>, 0, tokens,
                    IF st.mode = "Word" THEN st.word_count + 1
                    ELSE st.word_count,
                    st.dpy, {})

\* What step returns: the next state and the consume flag
Stepped(st, consume_flag) == [st |-> st, consume_flag |-> consume_flag]

\* A state that loses the characters it is given
push_char_dropped(st, ch) == st

push_char(st, ch) == [st EXCEPT !.text = Append(@, ch)]

\* A machine that stays where it is and consumes nothing
step_idle(st, ch) == Stepped(st, FALSE)

\* StateMachine::step
step(st, ch) ==
    LET \* data.text.push(ch.clone()) or data.text.push_str(..): what the
        \* arm of a one-character state writes for ch
        pushed == CASE ch \in {"U+2018", "U+2019"} -> <<"'">>
                    [] ch \in {"U+201C", "U+201D"} -> <<"\"">>
                    [] ch = "U+2013" -> <<"-">>
                    [] ch = "U+2014" -> <<"-", "-">>
                    [] ch = "U+2026" -> <<".", ".", ".">>
                    [] OTHER -> <<ch>>
        push_str == [st EXCEPT !.text = @ \o pushed]
    IN
    CASE st.mode \in {"Close", "Open", "Symbol"} ->
           LET own == CASE st.mode = "Close" -> CloseChars
                        [] st.mode = "Open" -> OpenChars
                        [] OTHER -> SymbolChars
           IN  Stepped(into_scan(IF ch \in own THEN push_str ELSE st), TRUE)
      [] st.mode = "Escape" ->
           IF st.count = 0 THEN Stepped([st EXCEPT !.count = 1], TRUE)
           ELSE IF st.count = 1 THEN
               IF is_whitespace(ch)
               THEN Stepped([push_char(st, " ") EXCEPT !.count = 2], TRUE)
               ELSE Stepped(into_scan(push_char(st, ch)), TRUE)
           ELSE IF is_whitespace(ch)
                THEN Stepped([st EXCEPT !.count = @ + 1], TRUE)
                ELSE Stepped(into_scan(st), FALSE)
      [] st.mode = "Punct" ->
           LET frm == CASE ch \in {"!", ".", "?"} -> {"FS", "EOS"}
                        [] ch = ":" -> {"FS"}
                        [] ch = "-" -> {"DLB"}
                        [] ch \in {"U+2013", "U+2014", "U+2026"} -> {"EOS"}
                        [] OTHER -> {}
           IN  Stepped(into_scan(
                   IF ch \in PunctChars
                   THEN [push_str EXCEPT !.frm = @ \cup frm]
                   ELSE st), TRUE)
      [] st.mode = "Scan" ->
           IF ch \in CloseChars THEN Stepped(from_scan(st, "Close"), FALSE)
           ELSE IF ch = "\\" THEN Stepped(from_scan(st, "Escape"), FALSE)
           ELSE IF ch \in OpenChars THEN Stepped(from_scan(st, "Open"), FALSE)
           ELSE IF ch \in PunctChars
                THEN Stepped(from_scan(st, "Punct"), FALSE)
           ELSE IF is_whitespace(ch)
                THEN Stepped(from_scan(st, "Space"), FALSE)
           ELSE IF ch \in SymbolChars
                THEN Stepped(from_scan(st, "Symbol"), FALSE)
           ELSE IF is_alphanumeric(ch)
                THEN Stepped(from_scan(st, "Word"), FALSE)
           ELSE Stepped(st, TRUE)
      [] st.mode = "Space" ->
           IF is_whitespace(ch) THEN Stepped(push_char(st, ch), TRUE)
           ELSE Stepped(into_scan(st), FALSE)
      [] st.mode = "Word" ->
           IF is_alphanumeric(ch) THEN Stepped(push_char(st, ch), TRUE)
           ELSE Stepped(into_scan(st), FALSE)

\* StateMachine::flush
flush(st) == into_scan(st)

\* Parser::run: the loop over the buffer
RECURSIVE Parser_run(_, _)
Parser_run(buffer, st) ==
    IF buffer = <<>> THEN flush(st)
    ELSE LET r == step(st, Head(buffer))
         IN  Parser_run(IF r.consume_flag THEN Tail(buffer) ELSE buffer,
                        r.st)

\* Reader::parse_text: Parser::new(text, tokens, dpy).run().get_tokens()
parse_text(text, tokens, dpy) == Parser_run(text, State_new(tokens, dpy)).tokens

----------------------------------------------------------------------------
(* Text elements in the reader, document/reader.rs *)

\* State::trim_whitespace
trim_whitespace(tokens) ==
    LET t1 == IF tokens # <<>> /\ Head(tokens).type = "Space"
              THEN Tail(tokens) ELSE tokens
    IN  IF t1 # <<>> /\ Last(t1).type = "Space"
        THEN SubSeq(t1, 1, Len(t1) - 1) ELSE t1

\* A finalization that leaves the flags of a leading Punct alone
remove_leading_eos_kept(tokens) == tokens

\* State::remove_leading_eos
remove_leading_eos(tokens) ==
    IF tokens # <<>> /\ Head(tokens).type = "Punct"
    THEN [tokens EXCEPT ![1].frm = @ \ {"EOS"}]
    ELSE tokens

\* State::on_exit, the token list of a text element when it is closed
close_text(type, tokens, indent) ==
    CASE type \in {"D", "P"} ->
           LET t == remove_leading_eos(trim_whitespace(tokens))
           IN  IF indent > 0 THEN <<IndentSpace(indent)>> \o t ELSE t
      [] type = "Em" -> tokens
      [] OTHER -> trim_whitespace(tokens)

\* State::resume_text_element: what a closed child adds to the tokens of
\* its parent
resume_text_element(tokens, child, child_tokens) ==
    CASE child = "Br" -> Append(tokens, LineBreakToken)
      [] child = "Em" -> tokens \o child_tokens
      [] OTHER -> tokens

----------------------------------------------------------------------------
(* The events of one text element: Reader::run between the start tag and
   the end tag of a Cue, D or P.  arg is the part of the reader's stack
   above the Body: the element (type, indent, tokens) and, in em, the
   tokens of an open <em> child (a sequence of at most one token list);
   events counts the events handled. *)

\* The most events between the tags
MaxEvents == 3

\* The character data of a text event
TextInputs ==
    { <<"a">>, <<" ">>, <<" ", "a">>, <<"a", " ">>, <<"a", ".", " ">>,
      <<"\\", " ">>, <<" ", "\\", " ", "a">>,
      <<"a", ")", " ", "\\", "\\">>, <<".", "a">> }

TextInit ==
    /\ elems = <<>> /\ pos = 0 /\ f = NewFormatter /\ popped = NoPop
    /\ op = "open" /\ res = <<>>
    /\ \E type \in {"Cue", "D", "P"} : \E indent \in {0, 2} :
          /\ type = "Cue" => indent = 0
          /\ arg = [type |-> type, indent |-> indent, tokens |-> <<>>,
                    em |-> <<>>, events |-> 0]

MoreEvents == op = "open" /\ arg.events < MaxEvents

\* Event::Text: the characters are tokenized onto the top of the stack
TextEvent ==
    /\ MoreEvents
    /\ \E text \in TextInputs :
          arg' = IF arg.em # <<>>
                 THEN [arg EXCEPT !.em[1] = parse_text(text, @, {"EM"}),
                                  !.events = @ + 1]
                 ELSE [arg EXCEPT !.tokens = parse_text(text, @, {}),
                                  !.events = @ + 1]
    /\ UNCHANGED <<elems, pos, f, popped, op, res>>

\* Event::Start for <em>
EmStart ==
    /\ MoreEvents /\ arg.em = <<>>
    /\ arg' = [arg EXCEPT !.em = << <<>> >>, !.events = @ + 1]
    /\ UNCHANGED <<elems, pos, f, popped, op, res>>

\* Event::End for </em>: pop, on_exit, on_resume of the parent
EmEnd ==
    /\ op = "open" /\ arg.em # <<>>
    /\ arg' = [arg EXCEPT
                  !.tokens = resume_text_element(
                                 @, "Em", close_text("Em", arg.em[1], 0)),
                  !.em = <<>>]
    /\ UNCHANGED <<elems, pos, f, popped, op, res>>

\* Event::Empty for <br/>: push, pop and on_resume of the top of the stack
BrEvent ==
    /\ MoreEvents
    /\ arg' = IF arg.em # <<>>
              THEN [arg EXCEPT
                       !.em[1] = resume_text_element(@, "Br", <<>>),
                       !.events = @ + 1]
              ELSE [arg EXCEPT
                       !.tokens = resume_text_element(@, "Br", <<>>),
                       !.events = @ + 1]
    /\ UNCHANGED <<elems, pos, f, popped, op, res>>

\* Event::End for the element: pop and on_exit
CloseElement ==
    /\ op = "open" /\ arg.em = <<>>
    /\ op' = "closed"
    /\ res' = close_text(arg.type, arg.tokens, arg.indent)
    /\ UNCHANGED <<elems, pos, f, popped, arg>>

TextNext == TextEvent \/ EmStart \/ EmEnd \/ BrEvent \/ CloseElement

SpecText == TextInit /\ [][TextNext]_vars

\* C10: when a text element has been closed, its text - the token list
\* without the Space that finalization prepends for indent > 0 - neither
\* begins nor ends with a Space token
C10_NoOuterSpace ==
    op = "closed" =>
        LET text == IF arg.indent > 0 THEN Tail(res) ELSE res IN
        text # <<>> =>
            Head(text).type # "Space" /\ Last(text).type # "Space"

\* C11: finalization is idempotent: when a D or P has been closed, applying
\* the finalization steps of on_exit (trim the Space tokens, clear the flag
\* of a leading Punct, prepend the indent Space) to its token list a second
\* time gives the same list
C11_FinalizeIdempotent ==
    (op = "closed" /\ arg.type \in {"D", "P"}) =>
        close_text(arg.type, res, arg.indent) = res

----------------------------------------------------------------------------
(* Break points and rendering of the same tokens: on_exit of a D or P,
   then the fill of its tokens in Formatter::run *)

\* The longest token list
MaxTokens == 4

WrapAlphabet ==
    {Word(10), Word(24), Space(1), FullStop, Hyphen, LineBreakToken}

WrapInit ==
    /\ elems = <<>> /\ pos = 0 /\ f = NewFormatter /\ popped = NoPop
    /\ op = "init" /\ res = <<>>
    /\ \E tag \in {"d", "p"} : \E k \in 0..MaxTokens :
       \E raw \in [1..k -> WrapAlphabet] :
          LET e == start_element(tag, 0, 1, 1, FALSE) IN
          arg = [type |-> e.type,
                 tokens |-> close_text(e.type, raw, 0),
                 line_length |-> width(e)]

\* on_exit: State::find_break_points(&elem.tokens[..], w)
FindBreakPoints ==
    /\ op = "init"
    /\ op' = "find_break_points"
    /\ res' = [break_points |->
                  find_break_points(arg.tokens, arg.line_length)]
    /\ UNCHANGED <<elems, pos, f, popped, arg>>

\* Formatter::run: linebreak_fill(&elem.tokens[..], w)
LinebreakFill ==
    /\ op = "find_break_points"
    /\ op' = "linebreak_fill"
    /\ res' = [break_points |-> res.break_points,
               lines |-> linebreak_fill(arg.tokens, arg.line_length)]
    /\ UNCHANGED <<elems, pos, f, popped, arg>>

WrapNext == FindBreakPoints \/ LinebreakFill

SpecWrap == WrapInit /\ [][WrapNext]_vars

\* C8: in the list find_break_points computes, token_index increases
\* strictly and line_no never decreases from each entry to the next, the
\* sentinel included
C8_BreakPointsOrdered ==
    op = "find_break_points" =>
        \A k \in 1..Len(res.break_points) - 1 :
            /\ res.break_points[k].token_index
                   < res.break_points[k + 1].token_index
            /\ res.break_points[k].line_no
                   <= res.break_points[k + 1].line_no

\* C9: the fill of the tokens of a D or P at the width of the element has
\* as many lines as the line_no of the sentinel find_break_points computes
\* for the same tokens and width
C9_FillMatchesSentinel ==
    op = "linebreak_fill" =>
        Len(res.lines) = Last(res.break_points).line_no

----------------------------------------------------------------------------
(* Parser::run as a state machine: one step per call of StateMachine::step,
   then the flush.  arg is the Parser (state, buffer) with the input string
   and the token list Parser::new was given; res is get_tokens(). *)

\* The longest input string
MaxChars == 4

ParseAlphabet == {"a", " ", ".", ")", "\\", "U+2014"}

\* Token lists a text element holds when a text event arrives: none, the
\* tokens of "a.", of "a" and a <br/>, and of "a. "
GivenTokens ==
    { <<>>, <<Word(1), FullStop>>, <<Word(1), LineBreakToken>>,
      <<Word(1), FullStop, Space(2)>> }

\* Parser::new
ParseInit ==
    /\ elems = <<>> /\ pos = 0 /\ f = NewFormatter /\ popped = NoPop
    /\ op = "new" /\ res = <<>>
    /\ \E k \in 0..MaxChars : \E text \in [1..k -> ParseAlphabet] :
       \E tokens \in GivenTokens :
          arg = [input |-> text, given |-> tokens, buffer |-> text,
                 state |-> State_new(tokens, {})]

\* Parser::run, the loop body with a character at the front of the buffer
ParserStep ==
    /\ op \in {"new", "step"} /\ arg.buffer # <<>>
    /\ LET r == step(arg.state, Head(arg.buffer)) IN
       arg' = [arg EXCEPT !.state = r.st,
                          !.buffer = IF r.consume_flag THEN Tail(@) ELSE @]
    /\ op' = "step"
    /\ UNCHANGED <<elems, pos, f, popped, res>>

\* Parser::run, the loop body with an empty buffer, and get_tokens
ParserFlush ==
    /\ op \in {"new", "step"} /\ arg.buffer = <<>>
    /\ arg' = [arg EXCEPT !.state = flush(@)]
    /\ op' = "get_tokens"
    /\ res' = flush(arg.state).tokens
    /\ UNCHANGED <<elems, pos, f, popped>>

ParseNext == ParserStep \/ ParserFlush

SpecParse == ParseInit /\ [][ParseNext]_vars

\* The text of a token list, and the tokens the parser has added to the
\* list it was given
text_of(tokens) == Concat([k \in 1..Len(tokens) |-> tokens[k].text])
produced == SubSeq(res, Len(arg.given) + 1, Len(res))

\* Whether the last token of a list that is not of a type in skip is a
\* Punct carrying FS
ends_sentence(tokens, skip) ==
    LET ks == {k \in 1..Len(tokens) : tokens[k].type \notin skip} IN
    /\ ks # {}
    /\ LET m == CHOOSE k \in ks : \A j \in ks : j <= k IN
       tokens[m].type = "Punct" /\ "FS" \in tokens[m].frm

\* The characters that make a Punct carrying FS
FSChars == {"!", ".", "?", ":"}

\* A text with each run of whitespace replaced by one space, or by two when
\* a Punct carrying FS comes before it (fs; Close characters in between do
\* not count), and nothing else changed; run tells that the character
\* before was whitespace
RECURSIVE collapse(_, _, _)
collapse(text, fs, run) ==
    IF text = <<>> THEN <<>>
    ELSE LET c == Head(text) IN
         IF is_whitespace(c)
         THEN (IF run THEN <<>> ELSE IF fs THEN <<" ", " ">> ELSE <<" ">>)
              \o collapse(Tail(text), FALSE, TRUE)
         ELSE <<c>> \o collapse(Tail(text),
                           IF c \in CloseChars THEN fs ELSE c \in FSChars,
                           FALSE)

has_backslash(text) == \E k \in 1..Len(text) : text[k] = "\\"

\* The characters the arms of step write as something else, or drop
Rewritten ==
    {"U+2018", "U+2019", "U+201C", "U+201D", "U+2013", "U+2014", "U+2026"}
Copied(c) ==
    \/ is_whitespace(c) \/ is_alphanumeric(c)
    \/ c \in (CloseChars \cup OpenChars \cup PunctChars \cup SymbolChars)
               \ Rewritten

\* C12 as stated: for an input without a backslash, the text of the tokens
\* the parser produces is the input with each run of whitespace replaced
\* by one space (two after a Punct carrying FS) and no other change
C12_TextPreserved ==
    (op = "get_tokens" /\ ~has_backslash(arg.input)) =>
        text_of(produced)
            = collapse(arg.input, ends_sentence(arg.given, {"Close"}), FALSE)

\* C12, amended: the same for an input without a backslash whose
\* characters are all whitespace, alphanumeric or characters the arms of
\* step copy unchanged, parsed onto a token list that does not end with a
\* token carrying MLB
C12_CopiedTextPreserved ==
    (/\ op = "get_tokens" /\ ~has_backslash(arg.input)
     /\ \A k \in 1..Len(arg.input) : Copied(arg.input[k])
     /\ (arg.given = <<>> \/ "MLB" \notin Last(arg.given).frm)) =>
        text_of(produced)
            = collapse(arg.input, ends_sentence(arg.given, {"Close"}), FALSE)

\* A run of two whitespace characters after a word has become one space
C12_Witness ==
    /\ op = "get_tokens"
    /\ arg.given = <<>>
    /\ arg.input = <<"a", " ", " ", "a">>
    /\ text_of(produced) = <<"a", " ", "a">>

\* The Space token a run of whitespace or an escaped space becomes
SpaceToken(text, dpy) == Tok("Space", text, dpy, {"DLB", "DOB"})

\* C13 as stated: each maximal run of whitespace (a stay of the machine in
\* the Space state) adds exactly one Space token carrying DLB|DOB, whose
\* text is two spaces when the most recent token before it that is neither
\* a Close nor a Space is a Punct with FS, and one space otherwise
C13_OneSpacePerRun ==
    [][(arg.state.mode = "Space" /\ arg'.state.mode = "Scan") =>
          LET before == arg.state.tokens IN
          arg'.state.tokens
              = Append(before,
                    SpaceToken(IF ends_sentence(before, {"Close", "Space"})
                               THEN <<" ", " ">> ELSE <<" ">>,
                               arg.state.dpy))]_vars

\* C13, amended: a maximal run of whitespace that does not directly follow
\* a token carrying MLB adds exactly one Space token carrying DLB|DOB,
\* whose text is two spaces when the most recent token before it that is
\* not a Close is a Punct with FS, and one space otherwise; a run directly
\* after a token carrying MLB adds no token
C13_OneSpacePerRunOfText ==
    [][(arg.state.mode = "Space" /\ arg'.state.mode = "Scan") =>
          LET before == arg.state.tokens IN
          arg'.state.tokens
              = IF before # <<>> /\ "MLB" \in Last(before).frm THEN before
                ELSE Append(before,
                         SpaceToken(IF ends_sentence(before, {"Close"})
                                    THEN <<" ", " ">> ELSE <<" ">>,
                                    arg.state.dpy))]_vars

\* The text "a a" has become three tokens: Word, Space, Word
C13_Witness ==
    /\ op = "get_tokens"
    /\ arg.given = <<>>
    /\ arg.input = <<"a", " ", "a">>
    /\ res = <<Word(1), Space(1), Word(1)>>

\* C14: a backslash followed by one or more whitespace characters (the
\* machine leaves the Escape state after it has counted whitespace) adds
\* exactly one Space token with a text of one space and the flags DLB|DOB,
\* and the most recent Punct before it, looking back past Close tokens,
\* carries neither FS nor EOS afterwards; the tokens before keep their
\* type and text
C14_EscapedSpace ==
    [][(arg.state.mode = "Escape" /\ arg.state.count >= 2
            /\ arg'.state.mode = "Scan") =>
          LET before == arg.state.tokens
              after  == arg'.state.tokens
              ks     == {k \in 1..Len(before) : before[k].type # "Close"}
          IN  /\ Len(after) = Len(before) + 1
              /\ Last(after) = SpaceToken(<<" ">>, arg.state.dpy)
              /\ \A k \in 1..Len(before) :
                    /\ after[k].type = before[k].type
                    /\ after[k].text = before[k].text
              /\ ks # {} =>
                    LET m == CHOOSE k \in ks : \A j \in ks : j <= k IN
                    before[m].type = "Punct" =>
                        after[m].frm \cap {"FS", "EOS"} = {}]_vars

\* The text ".)\ " has become a Punct without flags, a Close and a Space
\* of one space
C14_Witness ==
    /\ op = "get_tokens"
    /\ arg.given = <<>>
    /\ arg.input = <<".", ")", "\\", " ">>
    /\ res = <<Tok("Punct", <<".">>, {}, {}), Tok("Close", <<")">>, {}, {}),
               Space(1)>>

----------------------------------------------------------------------------
(* read (lib.rs) and Reader::run as a state machine: one step per markup
   event.  arg holds the file (whether fs::read_to_string succeeds), the
   names of the elements of the document that are open (xml: what the
   markup reader tracks; the events of a well-formed document close them
   in order), the Reader (stack, root), the number of events read, the
   names of the top-level elements seen (tops) and whether every tag seen
   had a known name (known); op is
   the last event and res what read has returned (status "-" before).  A
   state of the stack is the element under construction: the fields of
   Element, its tokens and its children. *)

\* The most Start, End, Empty and Text events of a document
MaxReadEvents == 5

\* Names of start tags: three of the arms of Event::Start and a name that
\* has no arm; names of empty tags: one arm of Event::Empty and a name that
\* has none
KnownStart == {"screenplay", "body", "p"}
StartNames == KnownStart \cup {"foo"}
EmptyNames == {"br", "foo"}

\* ContainerElement::new, TextElement::new, EmptyElement::new for a tag
new_state(tag) ==
    [tokens |-> <<>>, children |-> <<>>]
    @@ (CASE tag = "screenplay" ->
               Element("Screenplay", 0, 0, 0, 0, 0, 0, 0, 0)
          [] tag = "body" -> Element("Body", 0, 0, 0, 0, 0, 0, 0, 0)
          [] OTHER -> start_element(tag, 0, 1, 1, FALSE))

IsContainer(state) == state.type \in {"Screenplay", "Body"}

\* State::on_exit
on_exit(state) ==
    LET tokens == close_text(state.type, state.tokens, state.indent) IN
    [state EXCEPT !.tokens = tokens,
                  !.break_info = exit_break_info(state, tokens)]

\* State::on_resume
on_resume(state, child) ==
    IF IsContainer(state) THEN [state EXCEPT !.children = Append(@, child)]
    ELSE IF state.type \in {"Br", "PageBreak"} THEN state
    ELSE [state EXCEPT
             !.tokens = resume_text_element(@, child.type, child.tokens)]

\* Reader::pop
Reader_pop(r) ==
    IF r.stack = <<>> THEN r
    ELSE LET rest == SubSeq(r.stack, 1, Len(r.stack) - 1)
             child == on_exit(Last(r.stack))
         IN  IF rest # <<>>
             THEN [r EXCEPT !.stack = SubSeq(rest, 1, Len(rest) - 1)
                                      \o <<on_resume(Last(rest), child)>>]
             ELSE [r EXCEPT !.stack = <<>>, !.root = <<child>>]

\* Screenplay::body: the position of the first Body among the children of
\* the root, 0 for None
body_of(root) ==
    LET ks == {k \in 1..Len(root.children) : root.children[k].type = "Body"}
    IN  IF ks = {} THEN 0 ELSE CHOOSE k \in ks : \A j \in ks : k <= j

\* build_trains, "for i in 0 .. n - 1" with n = 0: the subtraction
\* overflows; a build with overflow checks panics there, a build without
\* them wraps to usize::MAX and the first iteration indexes children[0] of
\* an empty vector
build_trains_panics(children) ==
    IF Len(children) = 0
    THEN {"attempt to subtract with overflow", "index out of bounds"}
    ELSE {}

\* Reader::run, the post-processing of the root: the panics it can end in,
\* and the root it leaves otherwise
post_processing(root) ==
    IF root # <<>> /\ root[1].type = "Screenplay" /\ body_of(root[1]) # 0
    THEN LET b == body_of(root[1]) IN
         [panics |-> build_trains_panics(root[1].children[b].children),
          root |-> <<[root[1] EXCEPT !.children[b].children =
                                        mark_scene_endings(build_trains(@))]>>]
    ELSE [panics |-> {}, root |-> root]

Event(event, name) == [event |-> event, name |-> name]
Returned(status, root) == [status |-> status, root |-> root]

ReadInit ==
    /\ elems = <<>> /\ pos = 0 /\ f = NewFormatter /\ popped = NoPop
    /\ op = Event("-", "") /\ res = Returned("-", <<>>)
    /\ \E file \in {"readable", "unreadable"} :
          arg = [file |-> file, xml |-> <<>>,
                 reader |-> [stack |-> <<>>, root |-> <<>>], events |-> 0,
                 tops |-> <<>>, known |-> TRUE]

\* read: fs::read_to_string(..).unwrap(); Reader::new has made the reader
\* of the initial state
ReadFile ==
    /\ op.event = "-"
    /\ op' = Event("read_to_string", "")
    /\ res' = IF arg.file = "unreadable" THEN Returned("panic", <<>>)
              ELSE res
    /\ UNCHANGED <<elems, pos, f, popped, arg>>

Reading == op.event # "-" /\ res.status = "-"
MoreReadEvents == Reading /\ arg.events < MaxReadEvents

\* Event::Start: Reader::push of the state of a known tag
StartEvent ==
    /\ MoreReadEvents
    /\ \E tag \in StartNames :
          /\ arg' = [arg EXCEPT
                        !.xml = Append(@, tag),
                        !.reader.stack = IF tag \in KnownStart
                                         THEN Append(@, new_state(tag))
                                         ELSE @,
                        !.events = @ + 1,
                        !.tops = IF arg.xml = <<>> THEN Append(@, tag)
                                 ELSE @,
                        !.known = @ /\ tag \in KnownStart]
          /\ op' = Event("Start", tag)
    /\ UNCHANGED <<elems, pos, f, popped, res>>

\* Event::End
EndEvent ==
    /\ MoreReadEvents /\ arg.xml # <<>>
    /\ arg' = [arg EXCEPT !.xml = SubSeq(@, 1, Len(@) - 1),
                          !.reader = Reader_pop(@),
                          !.events = @ + 1]
    /\ op' = Event("End", Last(arg.xml))
    /\ UNCHANGED <<elems, pos, f, popped, res>>

\* Event::Empty
EmptyEvent ==
    /\ MoreReadEvents
    /\ \E tag \in EmptyNames :
          /\ arg' = [arg EXCEPT
                        !.reader =
                            IF tag = "br"
                            THEN Reader_pop([@ EXCEPT !.stack =
                                                Append(@, new_state(tag))])
                            ELSE @,
                        !.events = @ + 1,
                        !.tops = IF arg.xml = <<>> THEN Append(@, tag)
                                 ELSE @,
                        !.known = @ /\ tag = "br"]
          /\ op' = Event("Empty", tag)
    /\ UNCHANGED <<elems, pos, f, popped, res>>

\* Event::Text
ReadText ==
    /\ MoreReadEvents
    /\ LET stack == arg.reader.stack
           n     == Len(stack)
       IN  arg' = IF n > 0 /\ ~IsContainer(stack[n])
                  THEN [arg EXCEPT
                           !.reader.stack[n].tokens =
                               parse_text(<<"a">>, @, {}),
                           !.events = @ + 1]
                  ELSE [arg EXCEPT !.events = @ + 1]
    /\ op' = Event("Text", "")
    /\ UNCHANGED <<elems, pos, f, popped, res>>

\* read_event() returns Err (markup that is not well formed): unwrap
ReadError ==
    /\ Reading
    /\ op' = Event("Err", "")
    /\ res' = Returned("panic", <<>>)
    /\ UNCHANGED <<elems, pos, f, popped, arg>>

\* Event::Eof, the post-processing, and the return of read
ReadEof ==
    /\ Reading /\ arg.xml = <<>>
    /\ op' = Event("Eof", "")
    /\ LET post == post_processing(arg.reader.root) IN
       \/ /\ post.panics # {}
          /\ res' = Returned("panic", <<>>)
       \/ /\ post.panics = {}
          /\ res' = IF post.root = <<>> THEN Returned("Err", <<>>)
                    ELSE Returned("Ok", post.root)
    /\ UNCHANGED <<elems, pos, f, popped, arg>>

ReadNext ==
    \/ ReadFile \/ StartEvent \/ EndEvent \/ EmptyEvent \/ ReadText
    \/ ReadError \/ ReadEof

SpecRead == ReadInit /\ [][ReadNext]_vars

\* C15: the start tag and the end tag of an element with an unknown name
\* leave the stack and the root of the reader unchanged
C15_UnknownTagsIgnored ==
    [][(op'.event \in {"Start", "End"} /\ op'.name \notin KnownStart) =>
          arg'.reader = arg.reader]_vars

\* A root that is a Screenplay whose only child is a Body without children
empty_body(root) ==
    /\ root # <<>> /\ root[1].type = "Screenplay"
    /\ Len(root[1].children) = 1
    /\ root[1].children[1].type = "Body"
    /\ root[1].children[1].children = <<>>

\* Formatter::run over the stream of such a root (Screenplay, Body): the
\* Screenplay arm, the Body arm, then the fly page in front
pages_of_empty_body(root) ==
    <<format_fly_page>>
    \o run_Screenplay(padding(NewFormatter, root).s, root).body

\* C16: reading a screenplay whose body has no children ends without a
\* panic and returns the root, and formatting that root gives the fly page
\* as the only page
C16_EmptyBodyCompletes ==
    (op.event = "Eof" /\ empty_body(arg.reader.root)) =>
        /\ res.status = "Ok"
        /\ pages_of_empty_body(res.root[1]) = <<format_fly_page>>

\* C17: when the file cannot be read, or the markup reader reports an
\* error, read returns an error value; it does not panic
C17_ErrorsReturned ==
    (\/ op.event = "read_to_string" /\ arg.file = "unreadable"
     \/ op.event = "Err") =>
        res.status = "Err"

----------------------------------------------------------------------------
(* The post-passes of Reader::run on the children of a Body: arg holds the
   tags of the body and the children the events have built, res the
   children after each pass *)

\* The most children of the body
MaxBody == 4

\* The elements of the body: a cue, a dialogue of one line, one of four,
\* one without text and one that ends in a line break, a direction, a
\* paragraph and a slug line
PassTags ==
    {Tag("cue", 1), Tag("d", 2), Tag("d", 4), Tag("d", 0), Tag("d", 6),
     Tag("dir", 1), Tag("p", 2), Tag("slug", 1)}

PassInit ==
    /\ elems = <<>> /\ pos = 0 /\ f = NewFormatter /\ popped = NoPop
    /\ op = "read" /\ res = <<>>
    /\ \E k \in 0..MaxBody : \E tags \in [1..k -> PassTags] :
          arg = [tags |-> tags,
                 children |-> read_children(tags, <<>>, 1, 1)]

\* build_trains(body)
BuildTrains ==
    /\ op = "read"
    /\ \/ /\ build_trains_panics(arg.children) # {}
          /\ op' = "panic" /\ res' = <<>>
       \/ /\ build_trains_panics(arg.children) = {}
          /\ op' = "build_trains" /\ res' = build_trains(arg.children)
    /\ UNCHANGED <<elems, pos, f, popped, arg>>

\* mark_scene_endings(body)
MarkSceneEndings ==
    /\ op = "build_trains"
    /\ op' = "mark_scene_endings"
    /\ res' = mark_scene_endings(res)
    /\ UNCHANGED <<elems, pos, f, popped, arg>>

PassNext == BuildTrains \/ MarkSceneEndings

SpecPasses == PassInit /\ [][PassNext]_vars

\* The last position of the run of D and Dir elements that follows
\* position k of the children (k itself when there is none)
run_end(children, k) ==
    CHOOSE m \in k..Len(children) :
        /\ \A j \in (k + 1)..m : children[j].type \in {"D", "Dir"}
        /\ m < Len(children) => children[m + 1].type \notin {"D", "Dir"}

\* C18: after build_trains the train of every Cue of the body, the last
\* child included, is the sequence of the break descriptors of the maximal
\* run of D and Dir elements that immediately follows it, in order
C18_TrainIsFollowers ==
    op \in {"build_trains", "mark_scene_endings"} =>
        \A k \in 1..Len(res) :
            res[k].type = "Cue" =>
                res[k].train
                    = [j \in 1..(run_end(res, k) - k) |->
                          res[k + j].break_info]

\* A cue whose run of two followers stops at another element, and a cue
\* that is the last child
C18_Witness ==
    /\ op = "build_trains"
    /\ Len(res) = 4
    /\ res[1].type = "Cue" /\ Len(res[1].train) = 1
    /\ res[2].type = "D" /\ res[3].type = "P"
    /\ res[4].type = "Cue" /\ res[4].train = <<>>

\* C19: after the post-passes, at_scene_end of a Cue is true exactly when
\* the element after the cue and its run of D and Dir followers is a Slug,
\* or the cue and its followers end the body
C19_CueAtSceneEnd ==
    op = "mark_scene_endings" =>
        \A k \in 1..Len(res) :
            res[k].type = "Cue" =>
                LET m == run_end(res, k) IN
                res[k].at_scene_end
                    <=> (m = Len(res) \/ res[m + 1].type = "Slug")

\* C20: after mark_scene_endings, for every Slug that is not the first
\* child, the nearest text element before it has at_scene_end = TRUE
C20_SlugMarksPrevious ==
    op = "mark_scene_endings" =>
        \A i \in 2..Len(res) :
            res[i].type = "Slug" =>
                LET ks == {j \in 1..(i - 1) :
                              res[j].type \notin {"Br", "PageBreak"}}
                IN  ks # {} =>
                        res[CHOOSE j \in ks : \A h \in ks : h <= j]
                            .at_scene_end

----------------------------------------------------------------------------
(* The break_selection queue during Formatter::run *)

\* The element run has just dispatched
dispatched == elems[pos]
was_dispatched(types) == op = "run" /\ pos >= 1 /\ dispatched.type \in types

\* C21: each time a Cue is dispatched it places one entry per train member
\* on break_selection, and each D or Dir follower of a cue pops one entry
C21_OneEntryPerFollower ==
    /\ was_dispatched({"Cue"}) =>
           Len(f.break_selection) = Len(dispatched.train)
    /\ was_dispatched({"D", "Dir"}) /\ elems[cue_of(pos)].type = "Cue" =>
           popped.t # "Empty"

\* The queues a Cue with n followers may leave: nothing, or a None for
\* each of the followers before the break and the Some(break) of the
\* follower the break falls in
is_break_queue(q, n) ==
    \/ q = <<>>
    \/ /\ Len(q) <= n
       /\ \A k \in 1..(Len(q) - 1) : q[k] = <<>>
       /\ Last(q) # <<>>

\* C21, amended: a Cue is dispatched with break_selection empty and leaves
\* on it either nothing (its dialogue fits, or no break is selected) or one
\* None per follower before the selected break and then the Some(break);
\* each D or Dir pops exactly the front entry when there is one (the
\* followers after the break find the queue empty and pop nothing), and
\* the queue is empty whenever any other element is dispatched
C21_EntriesUpToBreak ==
    [][pos' = pos + 1 =>
          LET e  == elems[pos']
              q  == f.break_selection
              q1 == f'.break_selection
          IN  CASE e.type = "Cue" ->
                       q = <<>> /\ is_break_queue(q1, Len(e.train))
                [] e.type \in {"D", "Dir"} ->
                       q1 = IF q = <<>> THEN <<>> ELSE Tail(q)
                [] OTHER -> q = <<>> /\ q1 = <<>>]_vars

\* A cue has queued a None for its first follower and the Some(break) of
\* its second
C21_Witness ==
    /\ was_dispatched({"Cue"})
    /\ Len(f.break_selection) = 2
    /\ Len(dispatched.train) = 2

\* C22: every entry a Dir pops from break_selection is None; the
\* Some(break) a Cue queues is never taken by a Dir
C22_DirPopsNone ==
    was_dispatched({"Dir"}) => popped.t \in {"Empty", "None"}

\* A Dir has popped the None queued for it while the Some(break) of a
\* later D of the same train is still queued
C22_Witness ==
    /\ was_dispatched({"Dir"})
    /\ popped.t = "None"
    /\ f.break_selection # <<>>
    /\ Last(f.break_selection) # <<>>

----------------------------------------------------------------------------
(* Page starts *)

\* Is the element at stream position k the first Act of the document?
first_act(k) == \A j \in 1..(k - 1) : elems[j].type # "Act"

\* C23: every <act> after the first has padding_before = -1 and starts a
\* new page on which its line is the first body line; the first <act> has
\* padding_before = 0 and starts no page
C23_ActStartsPage ==
    [][pos' = pos + 1 /\ elems[pos'].type = "Act" =>
          IF first_act(pos')
          THEN /\ elems[pos'].padding_before = 0
               /\ Len(f'.body) = Len(f.body)
          ELSE /\ elems[pos'].padding_before = -1
               /\ Len(f'.body) = Len(f.body) + 1
               /\ cur_lines(f') = <<Ln("Act", 0, 0)>>]_vars

\* A second act has opened a page although the page before it had room
C23_Witness ==
    /\ was_dispatched({"Act"})
    /\ ~first_act(pos)
    /\ cur_lines(f) = <<Ln("Act", 0, 0)>>
    /\ Len(f.body) >= 2
    /\ Len(f.body[Len(f.body) - 1].lines) + 2 < Height

\* Formatter::run on any root: a document, or the lone Br of the
\* example in the documentation of run
RootInit ==
    /\ \/ \E x \in Sources : elems = Document(x[1], x[2] \o x[3])
       \/ elems = <<start_element("br", 0, 1, 1, FALSE)>>
    /\ pos = 0
    /\ f = NewFormatter
    /\ popped = NoPop
    /\ op = "run" /\ arg = <<>> /\ res = <<>>

SpecRoots == RootInit /\ [][Next]_vars

\* C24: after run the page list is one fly page (number -1) at index 0 and
\* then the body pages started during the run, numbered 1, 2, 3, ... in
\* order; a root that starts no page gives a list of length 1
C24_PageList ==
    LET n == f.next_page_no - 1 IN
    IF Done
    THEN /\ Len(f.body) = n + 1
         /\ f.body[1].number = -1
         /\ \A i \in 1..n : f.body[i + 1].number = i
         /\ (\A k \in 1..Len(elems) : elems[k].type = "Br") =>
                Len(f.body) = 1
    ELSE /\ Len(f.body) = n
         /\ \A i \in 1..n : f.body[i].number = i

\* A run that started three body pages has ended
C24_Witness ==
    /\ Done
    /\ Len(f.body) = 4
    /\ f.body[1] = format_fly_page
    /\ f.body[4].number = 3

\* The run over a lone Br has ended with the fly page alone
LoneBrDone ==
    Done /\ elems[1].type = "Br" /\ f.body = <<format_fly_page>>

----------------------------------------------------------------------------
(* The column of a transition, Formatter::run, ElementType::Trans *)

\* The longest transition text
MaxTransLen == 78

\* Line::from(tokens).length(): the characters of the tokens of a line
RECURSIVE Line_length(_)
Line_length(tokens) ==
    IF tokens = <<>> THEN 0
    ELSE length(Head(tokens)) + Line_length(Tail(tokens))

\* A usize column: the value of a subtraction, and whether it went below
\* zero and wrapped (to 2^64 + column) in a build without overflow checks
Column(x) == [column |-> x, wrapped |-> x < 0]

\* The one-word and two-word texts of a transition
TransTexts ==
    { <<Word(n)>> : n \in 1..MaxTransLen }
    \cup { <<Word(3), Space(1), Word(n)>> : n \in 1..(MaxTransLen - 4) }

TransInit ==
    /\ elems = <<>> /\ pos = 0 /\ f = NewFormatter /\ popped = NoPop
    /\ op = "init" /\ res = <<>>
    /\ \E tokens \in TransTexts :
          arg = [elem |-> start_element("trans", 0, 1, 1, FALSE),
                 tokens |-> tokens]

\* let w = right_margin - tab_stop - 1; let n = line.length();
\* if n > w { column = right_margin - n } else { column = tab_stop }
TransColumn ==
    /\ op = "init"
    /\ LET e == arg.elem
           w == e.right_margin - e.tab_stop - 1
           n == Line_length(arg.tokens)
       IN  \/ /\ n > w /\ e.right_margin - n < 0
              /\ op' = "panic" /\ res' = <<>>
           \/ /\ n > w
              /\ op' = "Trans.column"
              /\ res' = Column(e.right_margin - n)
           \/ /\ n <= w
              /\ op' = "Trans.column"
              /\ res' = Column(e.tab_stop)
    /\ UNCHANGED <<elems, pos, f, popped, arg>>

TransNext == TransColumn

SpecTrans == TransInit /\ [][TransNext]_vars

\* C25: a transition longer than right_margin - tab_stop + 1 characters is
\* hung from the right margin (column = right_margin - length); one of
\* that length or shorter starts at tab_stop
C25_TransColumn ==
    op # "init" =>
        LET e == arg.elem
            n == Line_length(arg.tokens)
        IN  /\ op = "Trans.column"
            /\ res = [column |-> IF n > e.right_margin - e.tab_stop + 1
                                  THEN e.right_margin - n
                                  ELSE e.tab_stop,
                       wrapped |-> FALSE]

----------------------------------------------------------------------------
(* Scene state and page starts of the single-line elements *)

\* C26: dispatching a Slug puts the paginator in scene state (the Slug
\* arm sets scene_page_no = 0, and the counter is not negative afterwards)
\* in every numbering mode, None included
C26_SlugEntersScene ==
    was_dispatched({"Slug"}) => in_scene(f)

\* C27: when an Act, End, Open or Trans (each one line high) is
\* dispatched and the current page has fewer free lines than that height
\* plus the element's padding_before, a new page is started before the
\* element's line is emitted
C27_NewPageWhenFull ==
    [][(/\ pos' = pos + 1
        /\ elem.type \in {"Act", "End", "Open", "Trans"}
        /\ lines_remaining(f) < 1 + elem.padding_before)
          => /\ Len(f'.body) = Len(f.body) + 1
             /\ Last(cur_lines(f')) = Ln(elem.type, 0, 0)]_vars

----------------------------------------------------------------------------
(* The root Reader::run returns *)

\* C28: after Reader::new alone the root is None; for a well-nested
\* stream of events of known tags with a single top-level element, run
\* ends with an empty stack and returns Some(root), the variant of the
\* root being that of the top-level tag
C28_RootReturned ==
    /\ op.event = "-" => arg.reader.root = <<>>
    /\ (op.event = "Eof" /\ arg.known /\ Len(arg.tops) = 1) =>
           /\ arg.reader.stack = <<>>
           /\ res.status = "Ok"
           /\ res.root[1].type = new_state(arg.tops[1]).type

----------------------------------------------------------------------------
(* The leading Punct of a finalized D or P *)

\* A D or P has been closed whose token list began with a Punct
leading_punct_closed ==
    /\ op = "closed" /\ arg.type \in {"D", "P"}
    /\ arg.tokens # <<>> /\ Head(arg.tokens).type = "Punct"

\* The first token of the text of the closed element (after the Space
\* that finalization prepends for indent > 0)
first_of_text == IF arg.indent > 0 THEN res[2] ELSE res[1]

\* C29: after a D or P is finalized, a Punct token that was first in its
\* token list carries neither the FS flag nor the EOS flag
C29_LeadingPunctNoFlags ==
    leading_punct_closed =>
        /\ first_of_text.type = "Punct"
        /\ first_of_text.frm \cap {"FS", "EOS"} = {}

\* C29, amended: after a D or P is finalized, a Punct token that was first
\* in its token list does not carry the EOS flag; its other flags, FS
\* included, are as they were
C29_LeadingPunctNoEOS ==
    leading_punct_closed =>
        /\ first_of_text.type = "Punct"
        /\ first_of_text.frm = Head(arg.tokens).frm \ {"EOS"}

\* A D that began with a full stop (FS and EOS) has been closed, and the
\* full stop keeps FS
C29_Witness ==
    /\ leading_punct_closed
    /\ Head(arg.tokens).frm = {"FS", "EOS"}
    /\ first_of_text.frm = {"FS"}

----------------------------------------------------------------------------
(* ElementType::into_iter and ElementIntoIterator::next, document.rs.  arg
   holds the root of a tree and the iterator, res the elements yielded so
   far.  An element of a tree is [id, type, children]; id is the path of
   child positions from the root, which tells the elements of a tree
   apart. *)

\* The most levels of a tree and the most children of a container
MaxDepth == 3
MaxWidth == 2

\* ElementType::has_children: true for the container variants, whether or
\* not the container holds a child
has_children(e) == e.type \in {"Authors", "Body", "Head", "Screenplay"}

\* The shapes of the trees of at most d levels: a text element, or a
\* container of at most MaxWidth trees of at most d - 1 levels
RECURSIVE Shapes(_)
Shapes(d) ==
    IF d = 0 THEN {}
    ELSE {[type |-> "P", children |-> <<>>]}
         \cup { [type |-> "Body", children |-> cs] :
                  cs \in UNION { [1..k -> Shapes(d - 1)] : k \in 0..MaxWidth } }

\* The tree of a shape, each element labelled with its path
RECURSIVE Labelled(_, _)
Labelled(shape, path) ==
    [id |-> path, type |-> shape.type,
     children |-> [k \in 1..Len(shape.children) |->
                      Labelled(shape.children[k], Append(path, k))]]

\* An iterator that never descends into a container
RECURSIVE next_flat(_)
next_flat(it) ==
    IF it.children = <<>>
    THEN IF it.parent # <<>> THEN next_flat(it.parent[1])
         ELSE [it |-> it, item |-> <<>>]
    ELSE [it |-> [it EXCEPT !.children = Tail(@)],
          item |-> <<[Head(it.children) EXCEPT !.children = <<>>]>>]

\* ElementIntoIterator::next: the iterator after the call and the item
\* returned (<<>> for None).  parent is <<>> for None, <<iterator>> for
\* Some(Box); a container is yielded with its children drained.
RECURSIVE next(_)
next(it) ==
    IF it.children = <<>>
    THEN IF it.parent # <<>> THEN next(it.parent[1])
         ELSE [it |-> it, item |-> <<>>]
    ELSE LET e    == Head(it.children)
             rest == [it EXCEPT !.children = Tail(@)]
         IN  IF has_children(e)
             THEN [it |-> [children |-> e.children, parent |-> <<rest>>],
                   item |-> <<[e EXCEPT !.children = <<>>]>>]
             ELSE [it |-> rest, item |-> <<e>>]

\* root.into_iter()
IterInit ==
    /\ elems = <<>> /\ pos = 0 /\ f = NewFormatter /\ popped = NoPop
    /\ op = "into_iter" /\ res = <<>>
    /\ \E shape \in Shapes(MaxDepth) :
          LET root == Labelled(shape, <<>>) IN
          arg = [root |-> root,
                 iter |-> [children |-> <<root>>, parent |-> <<>>]]

\* One turn of "for elem in root.into_iter()": a call of next
IterNext ==
    /\ op # "None"
    /\ LET r == next(arg.iter) IN
       /\ arg' = [arg EXCEPT !.iter = r.it]
       /\ op' = IF r.item = <<>> THEN "None" ELSE "Some"
       /\ res' = res \o r.item
    /\ UNCHANGED <<elems, pos, f, popped>>

SpecIter == IterInit /\ [][IterNext]_vars

\* The ids of the elements of a tree in pre-order: an element, then the
\* elements of each of its children in document order
RECURSIVE preorder(_)
preorder(tree) ==
    <<tree.id>>
    \o Concat([k \in 1..Len(tree.children) |-> preorder(tree.children[k])])

\* C30: into_iter yields the elements of the tree in pre-order - every
\* element once, a container before its children, siblings in document
\* order - and then ends
C30_PreOrder ==
    LET want == preorder(arg.root)
        got  == [k \in 1..Len(res) |-> res[k].id]
    IN  /\ Len(got) <= Len(want)
        /\ got = SubSeq(want, 1, Len(got))
        /\ op = "None" => got = want

\* The iteration of a tree of three levels has ended, having gone back
\* from the children of a container to the sibling after the container
C30_Witness ==
    /\ op = "None"
    /\ Len(res) >= 5
    /\ \E k \in 1..(Len(res) - 1) :
          Len(res[k].id) = 2 /\ Len(res[k + 1].id) = 1

----------------------------------------------------------------------------
(* The page list during Formatter::run *)

\* C31: during run on a tree rooted at a Screenplay, cur_page is never
\* called while the page list is empty: every element after the root is
\* dispatched with at least one page in the list
C31_CurPageExists ==
    [][pos' = pos + 1 /\ elem.type # "Screenplay" =>
          /\ elems[1].type = "Screenplay"
          /\ pad.s.body # <<>>]_vars

\* The first element of the body has put its line on page 1, the page the
\* Screenplay arm started
C31_Witness ==
    /\ op = "run" /\ pos = 3
    /\ elems[1].type = "Screenplay"
    /\ Len(f.body) = 1 /\ f.body[1].number = 1
    /\ Len(cur_lines(f)) = 1

----------------------------------------------------------------------------
(* A cue whose dialogue fits *)

\* The formatter after the D and Dir elements from stream position k on
\* have been dispatched in turn (the followers of a cue at position k - 1)
RECURSIVE run_followers(_, _)
run_followers(s, k) ==
    IF k <= Len(elems) /\ elems[k].type \in {"D", "Dir"}
    THEN LET p == padding(s, elems[k]) IN
         run_followers(
             IF elems[k].type = "D"
             THEN run_D(p.s, elems[k], p.padding_before, p.padding_after)
             ELSE run_Dir(p.s, elems[k]),
             k + 1)
    ELSE s

\* The test of the Cue arm: the cue and its train fit in the lines that
\* remain, less the two lines kept for (CONTINUED) inside a scene when the
\* cue is not at the end of the scene
cue_fits ==
    LET r == lines_remaining(pad.s) IN
    Cue_count_lines(elem.train) + pad.padding_before
        <= (IF in_scene(pad.s) /\ ~elem.at_scene_end THEN r - 2 ELSE r)

\* C32: when a Cue is dispatched and fits, nothing is pushed on
\* break_selection, and the cue and all its followers are placed on the
\* current page, within its height: no page is started and no (MORE) or
\* (CONT'D) line is emitted
C32_FittingCueStays ==
    [][pos' = pos + 1 /\ elem.type = "Cue" /\ cue_fits =>
          LET g     == run_followers(f', pos' + 1)
              before == Len(cur_lines(f))
              added == Slice(cur_lines(g), before + 1, Len(cur_lines(g)))
          IN  /\ f'.break_selection = f.break_selection
              /\ g.break_selection = f.break_selection
              /\ Len(g.body) = Len(f.body)
              /\ Len(cur_lines(g)) <= Last(g.body).height
              /\ \E k \in 1..Len(added) : added[k] = Ln("Cue", pos', 0)
              /\ \A k \in 1..Len(added) :
                    added[k].kind \notin {"(MORE)", "(CONT'D)"}]_vars

\* A cue with followers has been placed low on a page inside a scene,
\* with nothing queued: its dialogue fits in the lines that remain
C32_Witness ==
    /\ was_dispatched({"Cue"})
    /\ dispatched.train # <<>>
    /\ in_scene(f)
    /\ f.break_selection = <<>>
    /\ Len(cur_lines(f)) >= Height - MaxSlack
    /\ Last(cur_lines(f)) = Ln("Cue", pos, 0)
    /\ train_sum(dispatched.train) + 2 <= lines_remaining(f)

----------------------------------------------------------------------------
(* Blank lines between elements *)

\* How many blank slots open a sequence of slots
RECURSIVE leading_blanks(_)
leading_blanks(lines) ==
    IF lines # <<>> /\ Head(lines) = Blank
    THEN 1 + leading_blanks(Tail(lines)) ELSE 0

\* The element at the next stream position is placed below the element
\* before it, on the page that ends with a line of that element; both have
\* padding attributes
placed_below ==
    /\ pos' = pos + 1 /\ pos >= 1
    /\ HasPadding(elem) /\ HasPadding(elems[pos])
    /\ Len(f'.body) = Len(f.body)
    /\ cur_lines(f) # <<>>
    /\ Last(cur_lines(f)).kind = elems[pos].type
    /\ Len(cur_lines(f')) > Len(cur_lines(f))

\* C33: whenever an element with padding is placed below a previous
\* element on the same page, the blank lines pushed between them number
\* max(its padding_before, the padding_after of the previous element),
\* capped at the lines remaining - also when the previous element itself
\* began that page
C33_PaddingBetween ==
    [][placed_below =>
          leading_blanks(Slice(cur_lines(f'), Len(cur_lines(f)) + 1,
                               Len(cur_lines(f'))))
              = Min(Max(elem.padding_before, elems[pos].padding_after),
                    lines_remaining(f))]_vars

----------------------------------------------------------------------------
(* The descriptors of a train *)

\* A descriptor on_exit can give a D or a Dir
is_train_entry(b) ==
    \/ b.t = "Forbidden"
    \/ b.t = "Atomic" /\ b.h >= 1
    \/ b.t = "List" /\ Len(b.bps) >= 2

\* C34: every break descriptor in the train of a Cue is Forbidden(h),
\* Atomic(h) with h >= 1 or a List of at least two entries - never
\* Mandatory, None, Point or Disposable - and select_break does not return
\* Mandatory for such a train, whatever the lines remaining
C34_TrainEntries ==
    op \in {"build_trains", "mark_scene_endings"} =>
        \A k \in 1..Len(res) :
            res[k].type = "Cue" =>
                /\ \A j \in 1..Len(res[k].train) :
                       is_train_entry(res[k].train[j])
                /\ \A r \in -1..MaxRemaining :
                       Cue_select_break(res[k].train, r).b.t # "Mandatory"

\* A cue whose train holds a Forbidden, an Atomic and a List descriptor
C34_Witness ==
    /\ op = "build_trains"
    /\ \E k \in 1..Len(res) :
          /\ res[k].type = "Cue"
          /\ {res[k].train[j].t : j \in 1..Len(res[k].train)}
                 = {"Forbidden", "Atomic", "List"}

----------------------------------------------------------------------------
(* The shape of break_selection *)

\* C35: break_selection is empty whenever a Cue begins dispatch and when
\* run finishes, and at any moment it holds at most one Some entry, which
\* is its last entry
C35_QueueShape ==
    LET q == f.break_selection IN
    /\ Running /\ elem.type = "Cue" => q = <<>>
    /\ op = "run" /\ pos = Len(elems) => q = <<>>
    /\ \A k \in 1..(Len(q) - 1) : q[k] = <<>>

\* A D has popped the None queued for it and the Some(break) of the next
\* D is the only entry left
C35_Witness ==
    /\ was_dispatched({"D"})
    /\ popped.t = "None"
    /\ Len(f.break_selection) = 1
    /\ f.break_selection[1] # <<>>

----------------------------------------------------------------------------
(* The token slices of a D and of a P, put together *)

RECURSIVE concat(_)
concat(ss) == IF ss = <<>> THEN <<>> ELSE Head(ss) \o concat(Tail(ss))

RECURSIVE filled(_, _)
filled(ss, w) ==
    IF ss = <<>> THEN 0
    ELSE Len(linebreak_fill(Head(ss), w)) + filled(Tail(ss), w)

slices == IF elem.type = "D" THEN D_slices(pad.s, elem)
          ELSE P_slices(pad.s, elem, pad.padding_before)

lines_of_kind(s, kind) ==
    LET n(i) == Len(SelectSeq(s.body[i].lines, LAMBDA l : l.kind = kind))
        sum[i \in 0..Len(s.body)] == IF i = 0 THEN 0 ELSE sum[i - 1] + n(i)
    IN  sum[Len(s.body)]

\* C36: for every D and every P, whatever break decision is taken, the
\* token slices wrapped onto the pages, concatenated in order, are the
\* element's whole token list (and the lines the element adds to the pages
\* are the wraps of exactly these slices)
C36_SlicesCoverTokens ==
    [][pos' = pos + 1 /\ elem.type \in {"D", "P"} =>
          /\ concat(slices) = tokens_of(elem)
          /\ lines_of_kind(f', elem.type) - lines_of_kind(f, elem.type)
                 = filled(slices, width(elem))]_vars

\* Both a D and a P have been cut at a break point into two slices that
\* hold tokens
C36_Witness ==
    /\ was_dispatched({"D"})
    /\ popped.t = "Point"
    /\ popped.token_index >= 1
    /\ popped.token_index < Len(tokens_of(dispatched))
    /\ Len(f.body) = popped.page + 1
    /\ \E k \in 1..(pos - 1) : elems[k].type = "P"

----------------------------------------------------------------------------
(* Headers and footers of a scene's pages *)

opens_continued(page) ==
    page.lines # <<>> /\ Head(page.lines).kind = "CONTINUED:"

closes_continued(page) ==
    page.lines # <<>> /\ Last(page.lines).kind = "(CONTINUED)"

\* C37: every page that begins with a CONTINUED: header comes right after
\* a page whose last body line is (CONTINUED), whichever element started
\* the page
C37_HeaderAfterFooter ==
    \A i \in 2..Len(f.body) :
        opens_continued(f.body[i]) => closes_continued(f.body[i - 1])

----------------------------------------------------------------------------
(* What follows a reprinted cue *)

\* The D and Dir elements after the last dispatched position that print
\* at least one line
speaking_followers ==
    {k \in followers(pos) :
        linebreak_fill(tokens_of(elems[k]), width(elems[k])) # <<>>}

\* C38: whenever a D is split ((MORE) is emitted and the cue is reprinted
\* with (CONT'D) on the next page), at least one line of dialogue or
\* personal direction of the same train follows the reprinted cue: the
\* rest of the D, or a later member of the train
C38_LineAfterReprint ==
    split => suffix_lines # <<>> \/ speaking_followers # {}

----------------------------------------------------------------------------
(* The tokens an escaped space touches *)

\* C39: processing an escaped space changes at most one token already in
\* the list, the most recent Punct before it (looking back past Close
\* tokens), and only its format flags; every other token stays as it was
C39_OnePunctTouched ==
    [][(arg.state.mode = "Escape" /\ arg.state.count >= 2
            /\ arg'.state.mode = "Scan") =>
          LET before  == arg.state.tokens
              after   == arg'.state.tokens
              ks      == {k \in 1..Len(before) : before[k].type # "Close"}
              changed == {k \in 1..Len(before) : after[k] # before[k]}
          IN  /\ Len(after) >= Len(before)
              /\ Cardinality(changed) <= 1
              /\ \A k \in changed :
                    /\ k = CHOOSE m \in ks : \A j \in ks : j <= m
                    /\ before[k].type = "Punct"
                    /\ after[k] = [before[k] EXCEPT !.frm = after[k].frm]]_vars

----------------------------------------------------------------------------
(* Termination of Parser::run.  The loop of run takes its next step as
   long as one is possible, which is weak fairness of ParseNext. *)

SpecParseLive == ParseInit /\ [][ParseNext]_vars /\ WF_vars(ParseNext)

\* How many calls of step in a row, from state st with ch at the front of
\* the buffer, return a false consume_flag (counted up to n)
RECURSIVE idle_steps(_, _, _)
idle_steps(st, ch, n) ==
    IF n = 0 \/ step(st, ch).consume_flag THEN 0
    ELSE 1 + idle_steps(step(st, ch).st, ch, n - 1)

\* C40: Parser::run terminates on every input string: the buffer is
\* emptied, from no state do more than two steps in a row consume
\* nothing, and run ends in the Scan state with no pending text, the
\* token that was being collected pushed onto the list get_tokens returns
C40_RunTerminates ==
    /\ <>(op = "get_tokens")
    /\ [](op \in {"new", "step"} /\ arg.buffer # <<>> =>
              idle_steps(arg.state, Head(arg.buffer), 3) <= 2)
    /\ [](op = "get_tokens" =>
              /\ arg.buffer = <<>>
              /\ arg.state.mode = "Scan"
              /\ arg.state.text = <<>>
              /\ res = arg.state.tokens)
    /\ [][op' = "get_tokens"
              /\ arg.state.mode \in {"Close", "Open", "Punct", "Symbol",
                                     "Word"} =>
              /\ Len(res') = Len(arg.state.tokens) + 1
              /\ Last(res').text = arg.state.text]_vars

\* The run over "\ a" has ended: the step that left Escape and the step
\* that left Scan for Word both consumed nothing, and the word pending at
\* the end of the input is in the list
C40_Witness ==
    /\ op = "get_tokens"
    /\ arg.given = <<>>
    /\ arg.input = <<"\\", " ", "a">>
    /\ res = <<Space(1), Word(1)>>

====
